---- MODULE Spec2Model ----
(***************************************************************************)
(* A model of rftp: the dual-pane file list (file.rs), the control loop    *)
(* and the transfer workers (rftp.rs, main.rs), the progress registry      *)
(* (progress.rs), the status-message queue (user_message.rs) and session   *)
(* establishment (connect.rs).                                             *)
(*                                                                         *)
(* Paths are sequences of file names; a file name is a small integer whose *)
(* order is the byte order of the name it stands for:                      *)
(*     1 = ".h" (hidden, begins with '.'),  2 = "a",  3 = "b",  4 = "c",   *)
(*     5 = "d",  6 = "e".                                                  *)
(* The root directory is the empty sequence.                               *)
(***************************************************************************)
EXTENDS Integers, Sequences, FiniteSets, TLC

\* ------------------------------------------------------------------ bounds
\* Transfers (worker threads) dispatched during one run of the program.
MaxTransfers == 2
\* I/O or protocol failures the environment injects during one run.
MaxFaults == 1
\* Bytes one read() of the streaming loop returns at most (CHUNK_SIZE, scaled).
ChunkSize == 2
\* Key events the user sends during one run.
MaxKeys == 4
\* Session establishments (runs of the program) against one known-hosts file.
MaxRuns == 2
\* progress meters made through the meter interface
MaxMeters == 2
\* the largest total_bytes of such a meter
MaxTotal == 2
\* inc() calls on one such meter
MaxIncs == 2
\* messages reported to the status-message queue
MaxReports == 7

\* --------------------------------------------------------------- constants
\* user_message.rs: const NUM_MAX_MESSAGES: u16 = 5
NUM_MAX_MESSAGES == 5

\* -------------------------------------------------------------------- paths
Min(a, b) == IF a < b THEN a ELSE b

\* Path::parent(): None for the root.
HasParent(p) == Len(p) > 0
ParentOf(p) == SubSeq(p, 1, Len(p) - 1)

\* Path::join(file_name)
Join(dir, name) == Append(dir, name)

\* Path::file_name(): None for the root (the callers unwrap it).
HasFileName(p) == Len(p) > 0
FileName(p) == p[Len(p)]

\* impl Ord for Path: component-wise, a proper prefix sorts first.
RECURSIVE PathLess(_, _)
PathLess(p, q) ==
    IF q = <<>> THEN FALSE
    ELSE IF p = <<>> THEN TRUE
    ELSE IF Head(p) # Head(q) THEN Head(p) < Head(q)
    ELSE PathLess(Tail(p), Tail(q))

\* A file name that begins with '.'.
DotNames == {1}

\* -------------------------------------------------------------- filesystems
\* A filesystem maps each existing path to its node.
DirNode == [kind |-> "dir", data |-> <<>>]
FileNode(d) == [kind |-> "file", data |-> d]

Exists(fs, p) == p \in DOMAIN fs
IsDir(fs, p) == p \in DOMAIN fs /\ fs[p].kind = "dir"
IsFile(fs, p) == p \in DOMAIN fs /\ fs[p].kind = "file"
Children(fs, p) == {q \in DOMAIN fs : Len(q) = Len(p) + 1 /\ SubSeq(q, 1, Len(p)) = p}

\* A symbolic link to `target`. Path::is_file, fs::metadata and File::open follow
\* a link to what it names.
SymlinkNode(target) == [kind |-> "symlink", data |-> target]
Resolve(fs, p) == IF p \in DOMAIN fs /\ fs[p].kind = "symlink" THEN fs[p].data ELSE p

\* The local tree the program starts in and the remote tree it connects to.
LocalInitFs ==
    (<<>> :> DirNode) @@ (<<2>> :> DirNode) @@ (<<2, 1>> :> FileNode(<<1>>))
    @@ (<<2, 3>> :> FileNode(<<2, 2>>)) @@ (<<2, 4>> :> DirNode)
    @@ (<<2, 4, 3>> :> FileNode(<<1, 2, 1>>)) @@ (<<2, 4, 4>> :> DirNode)
    @@ (<<2, 4, 4, 3>> :> FileNode(<<>>)) @@ (<<2, 5>> :> FileNode(<<2>>))
RemoteInitFs ==
    (<<>> :> DirNode) @@ (<<1>> :> FileNode(<<>>)) @@ (<<2>> :> DirNode)
    @@ (<<2, 3>> :> FileNode(<<2>>)) @@ (<<3>> :> FileNode(<<1, 1>>))
    @@ (<<6>> :> FileNode(<<1>>))
\* env::current_dir() and the remote home directory at start-up.
LocalCwd == <<2>>
RemoteHome == <<>>

\* ------------------------------------------------------------ file entries
\* LocalFileEntry / RemoteFileEntry: File(path, len), Directory(path), Parent(path).
\* rftp.rs also matches a Symlink(path) variant.
FileEntry(p, n) == [kind |-> "File", path |-> p, len |-> n]
DirectoryEntry(p) == [kind |-> "Directory", path |-> p, len |-> 0]
ParentEntry(p) == [kind |-> "Parent", path |-> p, len |-> 0]

is_dir(e) == e.kind \in {"Directory", "Parent"}
is_file(e) == e.kind = "File"
is_parent(e) == e.kind = "Parent"

\* A test that takes the parent entry, shown as "..", for a hidden one.
is_hidden_by_shown_name(e) == IF is_parent(e) THEN TRUE ELSE FileName(e.path) \in DotNames

\* FileEntry::is_hidden
is_hidden(e) == IF is_parent(e) THEN FALSE ELSE FileName(e.path) \in DotNames

\* The order #[derive(Ord)] gives the entries: by variant (File, Directory,
\* Parent), then by path.
EntryLessDerived(a, b) ==
    LET VariantRank(e) ==
            CASE e.kind = "File" -> 0 [] e.kind = "Directory" -> 1 [] OTHER -> 2
    IN  \/ VariantRank(a) < VariantRank(b)
        \/ VariantRank(a) = VariantRank(b) /\ PathLess(a.path, b.path)

\* impl PartialOrd for LocalFileEntry / RemoteFileEntry (the lt that sort_unstable uses).
EntryLess(a, b) == PathLess(a.path, b.path)

\* LocalFileEntry::read_dir / RemoteFileEntry::read_dir, as the set of entries read:
\* File(path, len) when path.is_file(), Directory(path) for everything else. (The
\* symbolic links of the model are local ones.)
ReadDirSet(fs, p) ==
    {IF IsFile(fs, Resolve(fs, q)) THEN FileEntry(q, Len(fs[Resolve(fs, q)].data))
     ELSE DirectoryEntry(q)
        : q \in Children(fs, p)}

\* The orders in which a directory read may return its entries.
Orderings(S) ==
    {s \in [1..Cardinality(S) -> S] : \A i, j \in 1..Cardinality(S) : i # j => s[i] # s[j]}

\* One of them.
RECURSIVE SomeOrdering(_)
SomeOrdering(S) ==
    IF S = {} THEN <<>>
    ELSE CHOOSE read \in {<<e>> \o SomeOrdering(S \ {e}) : e \in {CHOOSE x \in S : TRUE}} : TRUE

RECURSIVE InsertSorted(_, _)
InsertSorted(e, s) ==
    IF s = <<>> THEN <<e>>
    ELSE IF EntryLess(e, Head(s)) THEN <<e>> \o s
    ELSE <<Head(s)>> \o InsertSorted(e, Tail(s))

\* Vec::sort_unstable (the entries of a listing have distinct paths, so the order
\* that results is the only sorted one).
RECURSIVE SortUnstable(_)
SortUnstable(s) ==
    IF s = <<>> THEN <<>>
    ELSE CHOOSE sorted \in
            {InsertSorted(Head(s), rest) : rest \in {SortUnstable(Tail(s))}} : TRUE

\* Vec::retain(|entry| !entry.is_hidden())
RetainVisible(s) == SelectSeq(s, LAMBDA e : ~is_hidden(e))

\* ------------------------------------------------------------------ FileList
NoneSelected == [pane |-> "None", i |-> 0]
LocalSelected(i) == [pane |-> "Local", i |-> i]
RemoteSelected(i) == [pane |-> "Remote", i |-> i]

\* The listing a fetch builds from directory `dir` of `fs`: the parent entry
\* chained with the directory read, hidden entries dropped, then sorted.
\* The sort makes the result independent of the order of the directory read.
Listing(fs, dir, keep_hidden_files) ==
    LET parent == IF HasParent(dir) THEN <<ParentEntry(ParentOf(dir))>> ELSE <<>>
    IN  CHOOSE sorted \in
            {SortUnstable(kept) :
                kept \in {IF keep_hidden_files THEN chained ELSE RetainVisible(chained) :
                    chained \in {parent \o SomeOrdering(read) :
                        read \in {ReadDirSet(fs, dir)}}}} : TRUE

\* The same listing built from the directory read as it came back, `read` being
\* the entries in the order the read returned them.
ListingOf(dir, read, keep_hidden_files) ==
    LET parent == IF HasParent(dir) THEN <<ParentEntry(ParentOf(dir))>> ELSE <<>>
        chained == parent \o read
    IN  SortUnstable(IF keep_hidden_files THEN chained ELSE RetainVisible(chained))

\* FileList::fetch_local_files: on an error of the directory read the entries are
\* left as they were (the `?` returns before the assignment).
fetch_local_files(f, fs, keep_hidden_files, ok) ==
    IF ok /\ IsDir(fs, f.local_directory)
    THEN [ok |-> TRUE,
          f |-> [f EXCEPT !.local_entries = Listing(fs, f.local_directory, keep_hidden_files)]]
    ELSE [ok |-> FALSE, f |-> f]

\* A fetch that drops the hidden entries whatever the flag says.
fetch_remote_files_hiding(f, fs, keep_hidden_files, ok) ==
    IF ok /\ IsDir(fs, f.remote_directory)
    THEN [ok |-> TRUE,
          f |-> [f EXCEPT !.remote_entries = Listing(fs, f.remote_directory, FALSE)]]
    ELSE [ok |-> FALSE, f |-> f]

\* FileList::fetch_remote_files
fetch_remote_files(f, fs, keep_hidden_files, ok) ==
    IF ok /\ IsDir(fs, f.remote_directory)
    THEN [ok |-> TRUE,
          f |-> [f EXCEPT !.remote_entries = Listing(fs, f.remote_directory, keep_hidden_files)]]
    ELSE [ok |-> FALSE, f |-> f]

\* The remainder of the `%` of isize, which takes the sign of the dividend.
RemTruncating(a, n) == IF a < 0 THEN 0 - ((0 - a) % n) ELSE a % n

\* isize::rem_euclid
RemEuclid(a, n) == a % n

\* FileList::apply_op_to_selected with f = |i| i + d
apply_op_to_selected(f, d) ==
    LET sel == f.selected
        fallback ==
            IF f.remote_entries # <<>> THEN RemoteSelected(0)
            ELSE IF f.local_entries # <<>> THEN LocalSelected(0)
            ELSE NoneSelected
        new ==
            CASE sel.pane = "Local" ->
                    IF f.local_entries = <<>> THEN NoneSelected
                    ELSE LocalSelected(RemEuclid(sel.i + d, Len(f.local_entries)))
              [] sel.pane = "Remote" ->
                    IF f.remote_entries = <<>> THEN NoneSelected
                    ELSE RemoteSelected(RemEuclid(sel.i + d, Len(f.remote_entries)))
              [] OTHER -> fallback
    IN  [f EXCEPT !.selected = new]

\* FileList::next_selected / prev_selected
next_selected(f) == apply_op_to_selected(f, 1)
prev_selected(f) == apply_op_to_selected(f, -1)

\* A toggle that carries the index over and does not bring it into range.
toggle_selected_unclamped(f) ==
    LET sel == f.selected
        new ==
            CASE sel.pane = "Local" ->
                    IF f.remote_entries # <<>> THEN RemoteSelected(sel.i) ELSE NoneSelected
              [] sel.pane = "Remote" ->
                    IF f.local_entries # <<>> THEN LocalSelected(sel.i) ELSE NoneSelected
              [] OTHER ->
                    IF f.remote_entries # <<>> THEN RemoteSelected(0)
                    ELSE IF f.local_entries # <<>> THEN LocalSelected(0)
                    ELSE NoneSelected
    IN  [f EXCEPT !.selected = new]

\* A toggle that only ever goes to the remote pane: from there it stays.
toggle_selected_one_way(f) ==
    LET sel == f.selected
        new ==
            IF f.remote_entries # <<>>
            THEN RemoteSelected(IF sel.pane = "None" THEN 0 ELSE sel.i)
            ELSE NoneSelected
    IN  apply_op_to_selected([f EXCEPT !.selected = new], 0)

\* FileList::toggle_selected
toggle_selected(f) ==
    LET sel == f.selected
        new ==
            CASE sel.pane = "Local" ->
                    IF f.remote_entries # <<>> THEN RemoteSelected(sel.i) ELSE NoneSelected
              [] sel.pane = "Remote" ->
                    IF f.local_entries # <<>> THEN LocalSelected(sel.i) ELSE NoneSelected
              [] OTHER ->
                    IF f.remote_entries # <<>> THEN RemoteSelected(0)
                    ELSE IF f.local_entries # <<>> THEN LocalSelected(0)
                    ELSE NoneSelected
    IN  apply_op_to_selected([f EXCEPT !.selected = new], 0)

\* std::fs::canonicalize: fails when the path does not exist; the paths the file
\* list holds are absolute and free of "..", so an existing path is its own
\* canonical form.
CanCanonicalize(fs, p) == Exists(fs, p)

\* FileList::set_local_working_path: the directory is assigned before the fetch,
\* and stays assigned when the fetch fails.
set_local_working_path(f, fs, path, keep_hidden_files, ok) ==
    IF ~CanCanonicalize(fs, path) THEN [ok |-> FALSE, f |-> f]
    ELSE LET r == fetch_local_files([f EXCEPT !.local_directory = path], fs,
                                    keep_hidden_files, ok)
         IN  IF r.ok THEN [ok |-> TRUE, f |-> apply_op_to_selected(r.f, 0)] ELSE r

\* FileList::set_remote_working_path
set_remote_working_path(f, fs, path, keep_hidden_files, ok) ==
    LET r == fetch_remote_files([f EXCEPT !.remote_directory = path], fs,
                                keep_hidden_files, ok)
    IN  IF r.ok THEN [ok |-> TRUE, f |-> apply_op_to_selected(r.f, 0)] ELSE r

\* FileList::get_selected_entry indexes the listing without a bounds check:
\* an index past the end panics.
SelectedInBounds(f) ==
    CASE f.selected.pane = "Local" -> f.selected.i < Len(f.local_entries)
      [] f.selected.pane = "Remote" -> f.selected.i < Len(f.remote_entries)
      [] OTHER -> TRUE

get_selected_entry(f) ==
    CASE f.selected.pane = "Local" -> f.local_entries[f.selected.i + 1]
      [] f.selected.pane = "Remote" -> f.remote_entries[f.selected.i + 1]

\* FileList::new, given that both start-up fetches succeed.
EmptyFileList ==
    [local_directory |-> <<>>, remote_directory |-> <<>>,
     local_entries |-> <<>>, remote_entries |-> <<>>, selected |-> NoneSelected]

FileListNew(local_fs, remote_fs, keep_hidden_files) ==
    LET l == set_local_working_path(EmptyFileList, local_fs, LocalCwd, keep_hidden_files, TRUE).f
    IN  set_remote_working_path(l, remote_fs, RemoteHome, keep_hidden_files, TRUE).f


\* ------------------------------------------------------------------- state
VARIABLES
    lfs,                \* the local filesystem
    rfs,                \* the remote filesystem
    files,              \* Rftp.files: Arc<Mutex<FileList>>
    show_hidden_files,  \* Rftp.show_hidden_files: Arc<AtomicBool>
    progress_bars,      \* Rftp.progress_bars: Arc<Mutex<Vec<Arc<Progress>>>>
    workers,            \* the threads spawn_upload / spawn_download started
    user_message,       \* UserMessage.messages
    app,                \* the control loop: "running", or how it ended
    fault_budget,       \* I/O failures the environment may still inject
    clobbered,          \* destination paths that existed when a worker created them
    key_budget,         \* key events the user may still send
    known_hosts_file,   \* ~/.ssh/known_hosts, persisted across runs
    conn,               \* the session establishment in progress (create_session)
    runs,               \* session establishments started so far
    files_guard,        \* the threads holding a MutexGuard of Rftp.files
    progress_guard,     \* the threads holding a MutexGuard of Rftp.progress_bars
    messages_guard,     \* the threads holding a MutexGuard of UserMessage.messages
    threads,            \* per thread: the lock, SFTP and spawn calls it has yet to make
    recorded,           \* per progress meter: the amounts passed to inc(), in call order
    history,            \* per progress meter: ProgressFile.history, the amounts, oldest first
    reported            \* the messages passed to UserMessage::report*, in call order

rftpVars == <<lfs, rfs, files, show_hidden_files, progress_bars, workers,
              user_message, app, fault_budget, clobbered, key_budget>>
connVars == <<known_hosts_file, conn, runs>>
lockVars == <<files_guard, progress_guard, messages_guard, threads>>
\* The history of calls, kept where a property speaks of the calls made so far:
\* by the actions that call the progress meters and the message queue directly.
callVars == <<recorded, history, reported>>
vars == <<lfs, rfs, files, show_hidden_files, progress_bars, workers,
          user_message, app, fault_budget, clobbered, key_budget, known_hosts_file, conn, runs,
          files_guard, progress_guard, messages_guard, threads, recorded, history, reported>>

\* The outcomes of one I/O call: it returns, or (while the fault budget lasts) fails.
IOOutcomes == IF fault_budget > 0 THEN {TRUE, FALSE} ELSE {TRUE}
Fault(ok) == IF ok THEN 0 ELSE 1

\* ------------------------------------------------------------ user messages
\* A report that drops the oldest only when the queue has grown past
\* NUM_MAX_MESSAGES.
report_evicting_late(q, m) ==
    LET pushed == Append(q, m)
    IN  IF Len(pushed) > NUM_MAX_MESSAGES THEN Tail(pushed) ELSE pushed

\* UserMessage::report_with_style: push, then drop the oldest once the queue
\* holds NUM_MAX_MESSAGES.
report(q, m) ==
    LET pushed == Append(q, m)
    IN  IF Len(pushed) >= NUM_MAX_MESSAGES THEN Tail(pushed) ELSE pushed

InfoMsg(text) == [tag |-> "info", text |-> text, w |-> 0]
ErrorMsg(kind, w) == [tag |-> "error", text |-> kind, w |-> w]
FinishedMsg(w) == [tag |-> "finished", text |-> "Finished", w |-> w]
WarningMsg(w) == [tag |-> "warning", text |-> "Skipping symlink", w |-> w]

\* --------------------------------------------------------- progress meters
\* Progress::new(title, total_bytes). A meter is named by the worker that made it
\* and its number there (0: the directory meter of the transfer).
NewMeter(id, total) == [id |-> id, total |-> total, sent |-> 0, finished |-> FALSE]

\* An inc that stores the amount in place of adding it.
IncMeterStoring(bars, id, bytes) ==
    [i \in DOMAIN bars |->
        IF bars[i].id = id THEN [bars[i] EXCEPT !.sent = bytes] ELSE bars[i]]

\* Progress::inc
IncMeter(bars, id, bytes) ==
    [i \in DOMAIN bars |->
        IF bars[i].id = id THEN [bars[i] EXCEPT !.sent = @ + bytes] ELSE bars[i]]

\* A finish that brings the count to the total and leaves the flag as it is.
FinishMeterUnflagged(bars, id) ==
    [i \in DOMAIN bars |->
        IF bars[i].id = id THEN [bars[i] EXCEPT !.sent = bars[i].total] ELSE bars[i]]

\* A finish that turns the flag over.
FinishMeterToggling(bars, id) ==
    [i \in DOMAIN bars |->
        IF bars[i].id = id
        THEN [bars[i] EXCEPT !.sent = bars[i].total, !.finished = ~bars[i].finished]
        ELSE bars[i]]

\* Progress::finish
FinishMeter(bars, id) ==
    [i \in DOMAIN bars |->
        IF bars[i].id = id THEN [bars[i] EXCEPT !.sent = bars[i].total, !.finished = TRUE]
        ELSE bars[i]]

\* ProgressFile::get_ratio, an f64, as the fraction <<numerator, denominator>>:
\* 0.0 for a meter of total 0, 1.0 once bytes_sent has reached the total, and
\* bytes_sent / total_bytes below that.
get_ratio(p) ==
    IF p.total = 0 THEN <<0, 1>>
    ELSE IF p.sent >= p.total THEN <<1, 1>>
    ELSE <<p.sent, p.total>>

\* A retain with the test the other way round.
RetainFinished(bars) == SelectSeq(bars, LAMBDA p : p.finished)

\* Rftp::tick: retain(|p| !p.is_finished())
RetainUnfinished(bars) == SelectSeq(bars, LAMBDA p : ~p.finished)

\* ------------------------------------------------------------------- Init
NoJob == [source |-> ParentEntry(<<>>), path |-> <<>>]

InitRftp ==
    /\ lfs = LocalInitFs
    /\ rfs = RemoteInitFs
    /\ show_hidden_files = FALSE
    /\ files = FileListNew(LocalInitFs, RemoteInitFs, FALSE)
    /\ progress_bars = <<>>
    /\ workers = <<>>
    /\ user_message = report(<<>>, InfoMsg("Press ? for help."))
    /\ app = "running"
    /\ fault_budget = MaxFaults
    /\ clobbered = {}
    /\ key_budget = MaxKeys

\* The program started on the trees local_fs and remote_fs.
InitOn(local_fs, remote_fs) ==
    /\ lfs = local_fs
    /\ rfs = remote_fs
    /\ show_hidden_files = FALSE
    /\ files = FileListNew(local_fs, remote_fs, FALSE)
    /\ progress_bars = <<>>
    /\ workers = <<>>
    /\ user_message = report(<<>>, InfoMsg("Press ? for help."))
    /\ app = "running"
    /\ fault_budget = MaxFaults
    /\ clobbered = {}
    /\ key_budget = MaxKeys

\* ------------------------------------------------------- the control loop
\* 'Q'
KeyForceQuit ==
    /\ app = "running"
    /\ key_budget > 0
    /\ key_budget' = key_budget - 1
    /\ app' = "quit"
    /\ UNCHANGED <<lfs, rfs, files, show_hidden_files, progress_bars, workers,
                   user_message, fault_budget, clobbered>>

\* 'q'
KeyQuit ==
    /\ app = "running"
    /\ key_budget > 0
    /\ key_budget' = key_budget - 1
    /\ IF progress_bars = <<>>
       THEN app' = "quit" /\ UNCHANGED user_message
       ELSE /\ user_message' = report(user_message, InfoMsg("Transfers in progress."))
            /\ UNCHANGED app
    /\ UNCHANGED <<lfs, rfs, files, show_hidden_files, progress_bars, workers,
                   fault_budget, clobbered>>

\* Enter: the set_*_working_path error leaves on_event through `?`, and App::run
\* returns it (main.rs: rftp.on_event(key)?).
KeyEnter ==
    /\ app = "running"
    /\ key_budget > 0
    /\ key_budget' = key_budget - 1
    /\ IF ~SelectedInBounds(files)
       THEN app' = "panic" /\ UNCHANGED <<files, user_message, fault_budget>>
       ELSE IF files.selected.pane = "None"
       THEN /\ user_message' = report(user_message, InfoMsg("No directory selected."))
            /\ UNCHANGED <<files, app, fault_budget>>
       ELSE LET entry == get_selected_entry(files) IN
            IF ~is_dir(entry)
            THEN /\ user_message' = report(user_message, InfoMsg("Cannot enter: not a directory."))
                 /\ UNCHANGED <<files, app, fault_budget>>
            ELSE \E ok \in IOOutcomes :
                    LET r == IF files.selected.pane = "Local"
                             THEN set_local_working_path(files, lfs, entry.path,
                                                         show_hidden_files, ok)
                             ELSE set_remote_working_path(files, rfs, entry.path,
                                                          show_hidden_files, ok)
                    IN  /\ files' = r.f
                        /\ app' = IF r.ok THEN "running" ELSE "error"
                        /\ fault_budget' = fault_budget - Fault(ok)
                        /\ UNCHANGED user_message
    /\ UNCHANGED <<lfs, rfs, show_hidden_files, progress_bars, workers, clobbered>>

\* 'j' / Down
KeyDown ==
    /\ app = "running"
    /\ key_budget > 0
    /\ key_budget' = key_budget - 1
    /\ files' = next_selected(files)
    /\ UNCHANGED <<lfs, rfs, show_hidden_files, progress_bars, workers,
                   user_message, app, fault_budget, clobbered>>

\* 'k' / Up
KeyUp ==
    /\ app = "running"
    /\ key_budget > 0
    /\ key_budget' = key_budget - 1
    /\ files' = prev_selected(files)
    /\ UNCHANGED <<lfs, rfs, show_hidden_files, progress_bars, workers,
                   user_message, app, fault_budget, clobbered>>

\* 'h' / 'l' / Left / Right
KeyToggle ==
    /\ app = "running"
    /\ key_budget > 0
    /\ key_budget' = key_budget - 1
    /\ files' = toggle_selected(files)
    /\ UNCHANGED <<lfs, rfs, show_hidden_files, progress_bars, workers,
                   user_message, app, fault_budget, clobbered>>

\* 'z': flip the flag, report, then fetch both listings; neither fetch touches the
\* selection, and the first failing fetch leaves on_event through `?`.
KeyHidden ==
    /\ app = "running"
    /\ key_budget > 0
    /\ key_budget' = key_budget - 1
    /\ \E ok1, ok2 \in IOOutcomes :
        LET show == ~show_hidden_files
            l == fetch_local_files(files, lfs, show, ok1)
            r == fetch_remote_files(l.f, rfs, show, ok2)
        IN  /\ ok1 \/ ok2
            /\ show_hidden_files' = show
            /\ user_message' = report(user_message,
                    InfoMsg(IF show THEN "Show hidden files." ELSE "Hide hidden files."))
            /\ IF ~l.ok
               THEN files' = l.f /\ app' = "error" /\ fault_budget' = fault_budget - Fault(ok1)
               ELSE /\ files' = r.f
                    /\ app' = IF r.ok THEN "running" ELSE "error"
                    /\ fault_budget' = fault_budget - Fault(ok2)
    /\ UNCHANGED <<lfs, rfs, progress_bars, workers, clobbered>>

\* Event::Tick: Rftp::tick prunes the finished meters. The draw that follows only
\* renders; the ageing of messages it applies needs a clock and is left out.
Tick ==
    /\ app = "running"
    /\ progress_bars' = RetainUnfinished(progress_bars)
    /\ UNCHANGED <<lfs, rfs, files, show_hidden_files, workers, user_message, app,
                   fault_budget, clobbered, key_budget>>

\* --------------------------------------------------------- transfer workers
\* The error kinds of utils.rs a transfer can end with, and "Ok".
ExistsError(kind) == IF kind = "upload" THEN "RemoteFileExists" ELSE "LocalFileExists"
ParentError(kind) == IF kind = "upload" THEN "CannotUploadParent" ELSE "CannotDownloadParent"

\* The filesystem a transfer reads and the one it writes.
SourceFs(kind) == IF kind = "upload" THEN lfs ELSE rfs
DestFs(kind) == IF kind = "upload" THEN rfs ELSE lfs
DestName(kind) == IF kind = "upload" THEN "remote" ELSE "local"

\* The thread spawn_upload / spawn_download starts, at the top of its task:
\* job_queue = VecDeque::from(vec![(source, dest)]).
NewWorker(kind, source, dest) ==
    [kind |-> kind, pc |-> "task", source |-> source, dest |-> dest,
     job_queue |-> <<[source |-> source, dest |-> dest]>>,
     cur |-> NoJob, off |-> 0, nfiles |-> 0,
     dirprog |-> is_dir(source), result |-> "none"]

\* Rftp::spawn_upload / spawn_download up to thread::spawn: the assertion on dest
\* (Path::is_dir asks the local filesystem, for either direction), the unwrap of the
\* source's file name, and the directory meter of a directory source.
SpawnPanics(source, dest) == ~IsDir(lfs, dest) \/ ~HasFileName(source.path)

\* Spacebar
KeySpace ==
    /\ app = "running"
    /\ key_budget > 0
    /\ key_budget' = key_budget - 1
    /\ IF ~SelectedInBounds(files)
       THEN app' = "panic" /\ UNCHANGED <<progress_bars, workers, user_message>>
       ELSE IF files.selected.pane = "None"
       THEN /\ user_message' = report(user_message, InfoMsg("No file selected."))
            /\ UNCHANGED <<progress_bars, workers, app>>
       ELSE LET source == get_selected_entry(files)
                kind == IF files.selected.pane = "Local" THEN "upload" ELSE "download"
                dest == IF kind = "upload" THEN files.remote_directory
                        ELSE files.local_directory
                w == Len(workers) + 1
            IN  IF SpawnPanics(source, dest)
                THEN app' = "panic" /\ UNCHANGED <<progress_bars, workers, user_message>>
                ELSE /\ Len(workers) < MaxTransfers
                     /\ progress_bars' =
                            IF is_dir(source)
                            THEN Append(progress_bars, NewMeter(<<w, 0>>, 0))
                            ELSE progress_bars
                     /\ workers' = Append(workers, NewWorker(kind, source, dest))
                     /\ UNCHANGED <<app, user_message>>
    /\ UNCHANGED <<lfs, rfs, files, show_hidden_files, fault_budget, clobbered>>

\* A thread that drops the result of its task without a word.
TaskReturnSilent(w, wrec, res, bars) ==
    /\ workers' = [workers EXCEPT ![w] = [wrec EXCEPT !.pc = "refresh", !.result = res]]
    /\ user_message' = user_message
    /\ progress_bars' = IF wrec.dirprog THEN FinishMeter(bars, <<w, 0>>) ELSE bars

\* A task that reports an error and goes on with the next job of its queue.
TaskReturnGoingOn(w, wrec, res, bars) ==
    /\ workers' = [workers EXCEPT ![w] =
            [wrec EXCEPT !.pc = IF res = "Ok" THEN "refresh" ELSE "task",
                         !.result = res, !.cur = NoJob]]
    /\ user_message' = report(user_message,
                              IF res = "Ok" THEN FinishedMsg(w) ELSE ErrorMsg(res, w))
    /\ progress_bars' = bars

\* The end of the task closure and what the thread does with its result: report
\* it, finish the directory meter, go on to the refresh.
TaskReturn(w, wrec, res, bars) ==
    /\ workers' = [workers EXCEPT ![w] = [wrec EXCEPT !.pc = "refresh", !.result = res]]
    /\ user_message' = report(user_message,
                              IF res = "Ok" THEN FinishedMsg(w) ELSE ErrorMsg(res, w))
    /\ progress_bars' = IF wrec.dirprog THEN FinishMeter(bars, <<w, 0>>) ELSE bars

\* RemoteFileEntry::exists(path, sftp)? is a protocol call that can fail;
\* Path::exists on the local side cannot.
ExistsOutcomes(kind) == IF kind = "upload" THEN IOOutcomes ELSE {TRUE}

\* Path::exists on the local filesystem.
LocalPathExists(path) == Exists(lfs, path)
\* RemoteFileEntry::exists(path, sftp): whether the path names anything on the remote side.
RemoteFileEntryExists(path) == Exists(rfs, path)

\* A task that goes on without looking at the destination.
DestExistsUnchecked(kind, path) == FALSE

\* The test `if RemoteFileEntry::exists(..)?` / `if new_local_file_path.exists()`.
DestExists(kind, path) ==
    IF kind = "upload" THEN RemoteFileEntryExists(path) ELSE LocalPathExists(path)

\* One turn of `while !job_queue.is_empty()` up to the existence test of the job
\* popped from the queue.
TaskStep(w) ==
    LET wk == workers[w] IN
    /\ app = "running"
    /\ wk.pc = "task"
    /\ IF wk.job_queue = <<>>
       THEN TaskReturn(w, wk, "Ok", progress_bars) /\ UNCHANGED fault_budget
       ELSE LET job == Head(wk.job_queue)
                popped == [wk EXCEPT !.job_queue = Tail(wk.job_queue)]
                newpath == Join(job.dest, FileName(job.source.path))
            IN  CASE job.source.kind \in {"File", "Directory"} ->
                        \E ok \in ExistsOutcomes(wk.kind) :
                            /\ fault_budget' = fault_budget - Fault(ok)
                            /\ IF ~ok
                               THEN TaskReturn(w, popped, "IOError", progress_bars)
                               ELSE IF DestExists(wk.kind, newpath)
                               THEN TaskReturn(w, popped, ExistsError(wk.kind), progress_bars)
                               ELSE /\ workers' = [workers EXCEPT ![w] =
                                        [popped EXCEPT
                                            !.pc = IF job.source.kind = "File"
                                                   THEN "file" ELSE "dir",
                                            !.cur = [source |-> job.source, path |-> newpath]]]
                                    /\ UNCHANGED <<user_message, progress_bars>>
                  [] job.source.kind = "Symlink" ->
                        /\ workers' = [workers EXCEPT ![w] = popped]
                        /\ user_message' = report(user_message, WarningMsg(w))
                        /\ UNCHANGED <<progress_bars, fault_budget>>
                  [] job.source.kind = "Parent" ->
                        /\ TaskReturn(w, popped, ParentError(wk.kind), progress_bars)
                        /\ UNCHANGED fault_budget
    /\ UNCHANGED <<lfs, rfs, files, show_hidden_files, app, clobbered, key_budget>>

\* The destination filesystem after a worker of `kind` changed it to `fs`.
SetDestFs(kind, fs) ==
    IF kind = "upload" THEN rfs' = fs /\ UNCHANGED lfs ELSE lfs' = fs /\ UNCHANGED rfs

\* File::create / Sftp::create: creates the file, or truncates the one that is there.
CreateTruncate(fs, path) == (path :> FileNode(<<>>)) @@ fs
CanCreate(fs, path) == IsDir(fs, ParentOf(path)) /\ ~IsDir(fs, path)

\* The File arm once the path was found free: register the file's meter, then
\* upload() / download() open the source and create the destination.
FileStep(w) ==
    LET wk == workers[w]
        id == <<w, wk.nfiles + 1>>
        bars == Append(progress_bars, NewMeter(id, wk.cur.source.len))
        dfs == DestFs(wk.kind)
        counted == [wk EXCEPT !.nfiles = @ + 1]
    IN
    /\ app = "running"
    /\ wk.pc = "file"
    /\ \E ok \in IOOutcomes :
        /\ fault_budget' = fault_budget - Fault(ok)
        /\ IF ok /\ IsFile(SourceFs(wk.kind), Resolve(SourceFs(wk.kind), wk.cur.source.path))
                 /\ CanCreate(dfs, wk.cur.path)
           THEN /\ SetDestFs(wk.kind, CreateTruncate(dfs, wk.cur.path))
                /\ clobbered' = IF Exists(dfs, wk.cur.path)
                                THEN clobbered \cup {[fs |-> DestName(wk.kind), path |-> wk.cur.path]}
                                ELSE clobbered
                /\ workers' = [workers EXCEPT ![w] = [counted EXCEPT !.pc = "stream", !.off = 0]]
                /\ progress_bars' = bars
                /\ UNCHANGED user_message
           ELSE /\ TaskReturn(w, counted, "IOError", bars)
                /\ UNCHANGED <<lfs, rfs, clobbered>>
    /\ UNCHANGED <<files, show_hidden_files, app, key_budget>>

\* A writer that starts every chunk at the beginning of the file.
WriteAtStart(data, off, chunk) == chunk \o SubSeq(data, Len(chunk) + 1, Len(data))

\* write_all at the handle's offset: bytes past the end of the file are appended,
\* a gap left by a truncation reads as zeros.
RECURSIVE Zeros(_)
Zeros(n) == IF n <= 0 THEN <<>> ELSE <<0>> \o Zeros(n - 1)
WriteAt(data, off, chunk) ==
    LET padded == IF Len(data) < off THEN data \o Zeros(off - Len(data)) ELSE data
    IN  SubSeq(padded, 1, off) \o chunk
        \o SubSeq(padded, off + Len(chunk) + 1, Len(padded))

\* One turn of the loop of upload() / download(): a read of at most CHUNK_SIZE bytes;
\* zero bytes read ends the loop and finishes the meter, otherwise the bytes are
\* written and counted.
StreamStep(w) ==
    LET wk == workers[w]
        id == <<w, wk.nfiles>>
        data == SourceFs(wk.kind)[Resolve(SourceFs(wk.kind), wk.cur.source.path)].data
        dfs == DestFs(wk.kind)
    IN
    /\ app = "running"
    /\ wk.pc = "stream"
    /\ \E ok \in IOOutcomes :
        /\ fault_budget' = fault_budget - Fault(ok)
        /\ IF ~ok
           THEN TaskReturn(w, wk, "IOError", progress_bars) /\ UNCHANGED <<lfs, rfs>>
           ELSE IF wk.off >= Len(data)
           THEN /\ progress_bars' = FinishMeter(progress_bars, id)
                /\ workers' = [workers EXCEPT ![w] = [wk EXCEPT !.pc = "task", !.cur = NoJob]]
                /\ UNCHANGED <<lfs, rfs, user_message>>
           ELSE \E n \in 1..Min(ChunkSize, Len(data) - wk.off) :
                /\ SetDestFs(wk.kind,
                        [dfs EXCEPT ![wk.cur.path].data =
                            WriteAt(@, wk.off, SubSeq(data, wk.off + 1, wk.off + n))])
                /\ progress_bars' = IncMeter(progress_bars, id, n)
                /\ workers' = [workers EXCEPT ![w] = [wk EXCEPT !.off = @ + n]]
                /\ UNCHANGED user_message
    /\ UNCHANGED <<files, show_hidden_files, app, clobbered, key_budget>>

\* Sftp::mkdir / fs::create_dir: fails when the path exists or its parent is no directory.
CanMkdir(fs, path) == ~Exists(fs, path) /\ IsDir(fs, ParentOf(path))
\* A mkdir that returns Ok and makes nothing.
MkdirNothing(fs, path) == fs
Mkdir(fs, path) == (path :> DirNode) @@ fs

\* The Directory arm once the path was found free: the children read from the
\* source directory are queued behind the jobs already there, each paired with the
\* new directory, and then the directory is made.
DirStep(w) ==
    LET wk == workers[w]
        sfs == SourceFs(wk.kind)
        dfs == DestFs(wk.kind)
    IN
    /\ app = "running"
    /\ wk.pc = "dir"
    /\ \E ok1, ok2 \in IOOutcomes :
        /\ ok1 \/ ok2
        /\ fault_budget' = fault_budget - Fault(ok1) - Fault(ok2)
        /\ IF ~(ok1 /\ IsDir(sfs, wk.cur.source.path))
           THEN TaskReturn(w, wk, "IOError", progress_bars) /\ UNCHANGED <<lfs, rfs>>
           ELSE \E children \in Orderings(ReadDirSet(sfs, wk.cur.source.path)) :
                LET queued == [wk EXCEPT !.job_queue = @ \o
                        [i \in 1..Len(children) |->
                            [source |-> children[i], dest |-> wk.cur.path]]]
                IN  IF ok2 /\ CanMkdir(dfs, wk.cur.path)
                    THEN /\ SetDestFs(wk.kind, Mkdir(dfs, wk.cur.path))
                         /\ workers' = [workers EXCEPT ![w] =
                                [queued EXCEPT !.pc = "task", !.cur = NoJob]]
                         /\ UNCHANGED <<user_message, progress_bars>>
                    ELSE /\ TaskReturn(w, queued, "IOError", progress_bars)
                         /\ UNCHANGED <<lfs, rfs>>
    /\ UNCHANGED <<files, show_hidden_files, app, clobbered, key_budget>>

\* The end of the thread: with the file list locked, fetch the listing of the
\* destination side under the flag as it is now; a failure is reported.
RefreshStep(w) ==
    LET wk == workers[w] IN
    /\ app = "running"
    /\ wk.pc = "refresh"
    /\ \E ok \in IOOutcomes :
        LET r == IF wk.kind = "upload"
                 THEN fetch_remote_files(files, rfs, show_hidden_files, ok)
                 ELSE fetch_local_files(files, lfs, show_hidden_files, ok)
        IN  /\ fault_budget' = fault_budget - Fault(ok)
            /\ files' = r.f
            /\ user_message' = IF r.ok THEN user_message
                               ELSE report(user_message, ErrorMsg("IOError", w))
    /\ workers' = [workers EXCEPT ![w] = [wk EXCEPT !.pc = "done"]]
    /\ UNCHANGED <<lfs, rfs, show_hidden_files, progress_bars, app, clobbered, key_budget>>

WorkerStep(w) ==
    \/ TaskStep(w)
    \/ FileStep(w)
    \/ StreamStep(w)
    \/ DirStep(w)
    \/ RefreshStep(w)

\* ------------------------------------------------- session establishment
\* connect.rs. The secure-transport library keeps the known-hosts collection as
\* lines of (host name, key); a line added through KnownHosts::add(destination, ..)
\* carries the bare destination, and check_port(destination, port, ..) looks up
\* both "[destination]:port" and the bare destination.
Hosts == {"h1", "h2"}
HostKeys == {1, 2}
NoPort == <<>>
PortArgs == {NoPort, <<"2", "2">>, <<"2", "2", "2", "2">>, <<"7", "0", "0", "0", "0">>, <<"x">>}
\* The port a bare `destination` string connects to when it names one.
BarePort == 2222

DigitValue(c) ==
    CASE c = "0" -> 0 [] c = "2" -> 2 [] c = "7" -> 7 [] OTHER -> -1

\* str::parse::<u16>: decimal digits, no overflow past 65535; -1 stands for Err.
RECURSIVE ParseDigits(_, _)
ParseDigits(s, acc) ==
    IF s = <<>> THEN acc
    ELSE IF DigitValue(Head(s)) < 0 THEN -1
    ELSE IF acc * 10 + DigitValue(Head(s)) > 65535 THEN -1
    ELSE ParseDigits(Tail(s), acc * 10 + DigitValue(Head(s)))
ParseU16(s) == IF s = <<>> THEN -1 ELSE ParseDigits(s, 0)

PlainName(host) == [host |-> host, port |-> 0]
BracketName(host, port) == [host |-> host, port |-> port]
KnownHost(name, key) == [name |-> name, key |-> key]

\* KnownHosts::check_port
CheckNames(destination, port) == {BracketName(destination, port), PlainName(destination)}
check_port(known_hosts, destination, port, key) ==
    LET hits == {r \in known_hosts : r.name \in CheckNames(destination, port)}
    IN  IF \E r \in hits : r.key = key THEN "Match"
        ELSE IF hits # {} THEN "Mismatch"
        ELSE "NotFound"

\* An add that files the key under the bracketed name of the default port.
known_hosts_add_bracketed(known_hosts, destination, key) ==
    known_hosts \cup {KnownHost(BracketName(destination, 22), key)}

\* KnownHosts::add(destination, key, "", key_type)
known_hosts_add(known_hosts, destination, key) ==
    known_hosts \cup {KnownHost(PlainName(destination), key)}

\* str::trim on the line read from stdin.
Whitespace == {" ", "\n", "\t"}
RECURSIVE TrimStart(_)
TrimStart(s) == IF s # <<>> /\ Head(s) \in Whitespace THEN TrimStart(Tail(s)) ELSE s
RECURSIVE TrimEnd(_)
TrimEnd(s) ==
    IF s # <<>> /\ s[Len(s)] \in Whitespace THEN TrimEnd(SubSeq(s, 1, Len(s) - 1)) ELSE s
Trim(s) == TrimEnd(TrimStart(s))

\* "Y" | "y" | "YES" | "Yes" | "yes"
Affirmative ==
    {<<"Y">>, <<"y">>, <<"Y", "E", "S">>, <<"Y", "e", "s">>, <<"y", "e", "s">>}
\* A prompt that takes every answer but "no" for consent.
IsAffirmativeUnlessNo(input) == Trim(input) # <<"n", "o">>

IsAffirmative(input) == Trim(input) \in Affirmative

\* Lines the user may type at the host prompt.
Answers ==
    {<<"y", "e", "s", "\n">>, <<" ", "Y", "\n">>, <<"y", "E", "s", "\n">>,
     <<"n", "o", "\n">>, <<"\n">>}

AuthMethods == {"publickey", "password"}


\* The state of one create_session call. `accepted` outlives the call: the
\* (destination, port, key) triples the user accepted at the host prompt.
\* `bare` and `fallback` tell how TcpStream::connect(destination) and
\* TcpStream::connect((destination, 22)) went: "none" (not called), "ok", "failed".
NewConn(accepted) ==
    [pc |-> "idle", destination |-> "", port |-> 0, key |-> 0,
     bare |-> "none", fallback |-> "none",
     known_hosts |-> {}, store_at_start |-> {}, check |-> "none",
     host_prompts |-> 0, answer |-> <<>>,
     round |-> 0, has_entered_password |-> FALSE, authenticated |-> FALSE,
     methods_queries |-> 0, agent_attempts |-> 0,
     pw_loop |-> 0, pw_prompts |-> 0, pw_read |-> 0, pw_attempts |-> 0,
     result |-> "none", accepted |-> accepted]
NoConn == NewConn({})

Finish(c, result) == [c EXCEPT !.pc = "done", !.result = result]

\* create_session up to the handshake: parse the port, connect, resolve the
\* peer port, handshake. With no port given, the connect to (destination, 22) is
\* the argument of unwrap_or and is made, and its error returned, whatever the
\* bare connect did.
StartSession ==
    /\ conn.pc \in {"idle", "done"}
    /\ runs < MaxRuns
    /\ runs' = runs + 1
    /\ \E destination \in Hosts, port \in PortArgs, key \in HostKeys,
          connect_ok, bare_ok, handshake_ok \in BOOLEAN :
        LET outcome(ok) == IF port # NoPort THEN "none" ELSE IF ok THEN "ok" ELSE "failed"
            c == [NewConn(conn.accepted) EXCEPT
                    !.destination = destination, !.key = key,
                    !.store_at_start = known_hosts_file,
                    !.bare = outcome(bare_ok), !.fallback = outcome(connect_ok)]
            resolved == IF port # NoPort THEN ParseU16(port)
                        ELSE IF bare_ok THEN BarePort ELSE 22
        IN  conn' =
                IF port # NoPort /\ ParseU16(port) < 0 THEN Finish(c, "InvalidPortNumber")
                ELSE IF ~connect_ok \/ ~handshake_ok THEN Finish(c, "IOError")
                ELSE [c EXCEPT !.pc = "host", !.port = resolved]
    /\ UNCHANGED known_hosts_file

\* A match that sends a mismatch to the prompt.
HostCheckArmDowngraded(check) ==
    CASE check = "Match" -> "proceed"
      [] check \in {"NotFound", "Mismatch"} -> "prompt"
      [] OTHER -> "HostFileCheckError"

\* A match that lets a changed key through.
HostCheckArmTrusting(check) ==
    CASE check \in {"Match", "Mismatch"} -> "proceed"
      [] check = "NotFound" -> "prompt"
      [] OTHER -> "HostFileCheckError"

\* The arm of `match known_hosts.check_port(..)` a check result takes.
HostCheckArm(check) ==
    CASE check = "Match" -> "proceed"
      [] check = "NotFound" -> "prompt"
      [] check = "Mismatch" -> "MismatchedFingerprint"
      [] OTHER -> "HostFileCheckError"

\* authenticate_host up to the prompt: read the known-hosts file, take the host
\* key, check it; on NotFound compute the fingerprint and print the prompt.
AuthenticateHost ==
    /\ conn.pc = "host"
    /\ \E fault \in {"none", "known_hosts", "home_dir", "read_file", "host_key",
                     "check", "fingerprint", "flush"} :
        LET read == [conn EXCEPT !.known_hosts = known_hosts_file]
            check == IF fault = "check" THEN "Failure"
                     ELSE check_port(read.known_hosts, conn.destination, conn.port, conn.key)
            checked == [read EXCEPT !.check = check]
            arm == HostCheckArm(check)
        IN  conn' =
                CASE fault \in {"known_hosts", "read_file"} -> Finish(conn, "IOError")
                  [] fault = "home_dir" -> Finish(conn, "UnableToFindHomeDirectory")
                  [] fault = "host_key" -> Finish(read, "HostKeyNotFound")
                  [] OTHER ->
                        IF arm = "proceed" THEN [checked EXCEPT !.pc = "auth_round"]
                        ELSE IF arm = "prompt"
                        THEN IF fault = "fingerprint"
                             THEN Finish(checked, "HostFingerprintNotFound")
                             ELSE IF fault = "flush"
                             THEN Finish([checked EXCEPT !.host_prompts = @ + 1], "IOError")
                             ELSE [checked EXCEPT !.pc = "host_prompt", !.host_prompts = @ + 1]
                        ELSE Finish(checked, arm)
    /\ UNCHANGED <<known_hosts_file, runs>>

\* The answer to the prompt: read a line; an affirmative one adds the key under
\* the destination and writes the file, any other fails.
HostAnswer ==
    /\ conn.pc = "host_prompt"
    /\ \E read_ok, add_ok, write_ok \in BOOLEAN, input \in Answers :
        LET answered == [conn EXCEPT !.answer = input]
            added == known_hosts_add(conn.known_hosts, conn.destination, conn.key)
        IN  IF ~read_ok
            THEN conn' = Finish(conn, "IOError") /\ UNCHANGED known_hosts_file
            ELSE IF ~IsAffirmative(input)
            THEN /\ conn' = Finish(answered, "HostAuthenticationError")
                 /\ UNCHANGED known_hosts_file
            ELSE IF ~add_ok \/ ~write_ok
            THEN conn' = Finish(answered, "IOError") /\ UNCHANGED known_hosts_file
            ELSE /\ known_hosts_file' = added
                 /\ conn' = [answered EXCEPT
                        !.pc = "auth_round", !.known_hosts = added,
                        !.accepted = @ \cup {[destination |-> conn.destination,
                                              port |-> conn.port, key |-> conn.key]}]
    /\ UNCHANGED runs

\* A final check that returns the session whatever it reports.
AuthResultAlwaysOk(authenticated) == "Ok"

\* authenticate_session, lines 169-173: the result for the session as it is.
AuthResult(authenticated) == IF authenticated THEN "Ok" ELSE "UserAuthenticationError"

\* `for _ in 0..3` of authenticate_session: no round is left.
RoundsExhaustedEarly(c) == c.round >= 2
RoundsExhausted(c) == c.round = 3

\* `for _ in 0..3` of authenticate_with_password: another prompt follows a rejection.
PasswordLoopOneMore(tried) == tried.pw_loop < 4
PasswordLoopGoesOn(tried) == tried.pw_loop < 3

\* A round that goes on to the password without asking the session.
OffersPasswordRegardless(c, methods) ==
    ~c.has_entered_password /\ "password" \in methods

\* Whether a round goes on to authenticate_with_password.
OffersPassword(c, methods) ==
    ~c.has_entered_password /\ ~c.authenticated /\ "password" \in methods

\* One round of `for _ in 0..3` up to the password: query the methods the server
\* offers, try the agent when publickey is among them (its error is dropped).
AuthRound ==
    /\ conn.pc = "auth_round"
    /\ ~conn.authenticated
    /\ ~RoundsExhausted(conn)
    /\ \E query_ok, agent_ok \in BOOLEAN, methods \in SUBSET AuthMethods :
        LET queried == [conn EXCEPT !.methods_queries = @ + 1]
            agent == IF "publickey" \in methods
                     THEN [queried EXCEPT !.agent_attempts = @ + 1,
                                          !.authenticated = agent_ok]
                     ELSE queried
        IN  conn' =
                IF ~query_ok THEN Finish(queried, "IOError")
                ELSE IF OffersPassword(agent, methods)
                THEN [agent EXCEPT !.pc = "password", !.pw_loop = 0]
                ELSE [agent EXCEPT !.round = @ + 1]
    /\ UNCHANGED <<known_hosts_file, runs>>

\* authenticate_with_password: prompt_password_stdout, whose error returns.
PasswordPrompt ==
    /\ conn.pc = "password"
    /\ \E read_ok \in BOOLEAN :
        LET prompted == [conn EXCEPT !.pw_prompts = @ + 1]
        IN  conn' = IF read_ok
                    THEN [prompted EXCEPT !.pc = "pw_attempt", !.pw_read = @ + 1]
                    ELSE Finish(prompted, "IOError")
    /\ UNCHANGED <<known_hosts_file, runs>>

\* userauth_password with the password read: accepted, the function returns and
\* the round ends with has_entered_password set; rejected three times, the error
\* returns from authenticate_session through `?`.
PasswordAttempt ==
    /\ conn.pc = "pw_attempt"
    /\ \E accepted \in BOOLEAN :
        LET tried == [conn EXCEPT !.pw_attempts = @ + 1, !.pw_loop = @ + 1]
        IN  conn' =
                IF accepted
                THEN [tried EXCEPT !.pc = "auth_round", !.authenticated = TRUE,
                                   !.has_entered_password = TRUE, !.round = @ + 1]
                ELSE IF PasswordLoopGoesOn(tried) THEN [tried EXCEPT !.pc = "password"]
                ELSE Finish(tried, "UserAuthenticationError")
    /\ UNCHANGED <<known_hosts_file, runs>>

\* The loop is left (break, or three rounds made) and the session returned or not.
AuthReturn ==
    /\ conn.pc = "auth_round"
    /\ conn.authenticated \/ RoundsExhausted(conn)
    /\ conn' = Finish(conn, AuthResult(conn.authenticated))
    /\ UNCHANGED <<known_hosts_file, runs>>

\* ------------------------------------------------- the lock of the file list
\* Rftp.files is an Arc<Mutex<FileList>>. This part follows, thread by thread,
\* the order in which the code locks it, calls the SFTP session (a network round
\* trip), reads a local directory, drops the guard and spawns a thread. A guard
\* bound with `let` lives to the end of its block or to drop(files); a guard that
\* is a temporary lives to the end of its statement, which for
\* `if let Err(..) = files.lock().unwrap().fetch_remote_files(..) {..}` is the end
\* of the whole if-let.
\* Thread 0 is the control loop, 1..MaxTransfers are the transfer threads.
ThreadIds == 0..MaxTransfers

\* What the control loop does with its three locks for each event, in order:
\* "lock" / "unlock" are the file list's, the others name their mutex. A tick
\* prunes the registry and draws: the messages, then the meters under the
\* registry's guard, which is a `let` and so is still held when the file list
\* is locked and drawn.
Events == {"move", "draw", "enter_local", "enter_remote", "enter_file",
           "upload", "download", "upload_dir", "download_dir", "hidden", "quit"}

\* A draw that keeps the guard of the message queue until the frame is done.
OnEventOpsDrawUnderMessages(ev) ==
    CASE ev = "draw" -> <<"lock_messages", "lock_progress", "lock", "unlock",
                          "unlock_progress", "unlock_messages">>
      [] ev \in {"upload", "upload_dir"} -> <<"lock", "unlock", "spawn_upload">>
      [] ev \in {"download", "download_dir"} -> <<"lock", "unlock", "spawn_download">>
      [] OTHER -> <<"lock", "unlock">>

OnEventOps(ev) ==
    CASE ev = "move" -> <<"lock", "unlock">>
      [] ev = "draw" -> <<"lock_progress", "unlock_progress",
                          "lock_messages", "unlock_messages",
                          "lock_progress", "lock", "unlock", "unlock_progress">>
      [] ev = "enter_file" -> <<"lock", "unlock", "lock_messages", "unlock_messages">>
      [] ev = "enter_local" -> <<"lock", "read_dir", "unlock">>
      [] ev = "enter_remote" -> <<"lock", "sftp", "unlock">>
      [] ev = "upload" -> <<"lock", "unlock", "spawn_upload">>
      [] ev = "download" -> <<"lock", "unlock", "spawn_download">>
      [] ev = "upload_dir" -> <<"lock", "unlock", "lock_progress", "unlock_progress",
                                "spawn_upload">>
      [] ev = "download_dir" -> <<"lock", "unlock", "lock_progress", "unlock_progress",
                                  "spawn_download">>
      [] ev = "hidden" -> <<"lock_messages", "unlock_messages",
                            "lock", "read_dir", "sftp", "unlock">>
      [] ev = "quit" -> <<"lock_progress", "unlock_progress",
                          "lock_messages", "unlock_messages">>

\* What a transfer thread does: the task (the push of a file's meter, SFTP
\* calls, the file list untouched), the report of its result, then the fetch
\* of the destination listing under the lock of the file list, with the report
\* of a failed fetch made before that guard is dropped.
ThreadOps(kind, fetch_ok) ==
    <<"lock_progress", "unlock_progress", "task", "lock_messages", "unlock_messages",
      "lock", IF kind = "upload" THEN "sftp" ELSE "read_dir">>
    \o (IF fetch_ok THEN <<>> ELSE <<"lock_messages", "unlock_messages">>)
    \o <<"unlock">>

NotSpawned == [ops |-> <<>>, net |-> FALSE, spawned |-> FALSE]
Popped(t) == [threads EXCEPT ![t].ops = Tail(@)]

InitLockIdle ==
    /\ files_guard = {}
    /\ progress_guard = {}
    /\ messages_guard = {}
    /\ threads = [t \in ThreadIds |-> IF t = 0 THEN [NotSpawned EXCEPT !.spawned = TRUE]
                                      ELSE NotSpawned]

\* App::run takes the next event once the handler of the last one has returned.
NextEvent ==
    /\ threads[0].ops = <<>>
    /\ \E ev \in Events :
        /\ ev \in {"upload", "download", "upload_dir", "download_dir"}
                => \E w \in 1..MaxTransfers : ~threads[w].spawned
        /\ threads' = [threads EXCEPT ![0].ops = OnEventOps(ev)]
    /\ UNCHANGED <<files_guard, progress_guard, messages_guard>>

\* One call of thread t.
ThreadStep(t) ==
    /\ threads[t].ops # <<>>
    /\ LET op == Head(threads[t].ops) IN
       CASE op = "lock" ->
                /\ files_guard = {}
                /\ files_guard' = {t}
                /\ threads' = Popped(t)
                /\ UNCHANGED <<progress_guard, messages_guard>>
         [] op = "unlock" ->
                /\ files_guard' = files_guard \ {t}
                /\ threads' = Popped(t)
                /\ UNCHANGED <<progress_guard, messages_guard>>
         [] op = "lock_progress" ->
                /\ progress_guard = {}
                /\ progress_guard' = {t}
                /\ threads' = Popped(t)
                /\ UNCHANGED <<files_guard, messages_guard>>
         [] op = "unlock_progress" ->
                /\ progress_guard' = progress_guard \ {t}
                /\ threads' = Popped(t)
                /\ UNCHANGED <<files_guard, messages_guard>>
         [] op = "lock_messages" ->
                /\ messages_guard = {}
                /\ messages_guard' = {t}
                /\ threads' = Popped(t)
                /\ UNCHANGED <<files_guard, progress_guard>>
         [] op = "unlock_messages" ->
                /\ messages_guard' = messages_guard \ {t}
                /\ threads' = Popped(t)
                /\ UNCHANGED <<files_guard, progress_guard>>
         [] op = "read_dir" ->
                /\ threads' = Popped(t)
                /\ UNCHANGED <<files_guard, progress_guard, messages_guard>>
         [] op = "sftp" ->
                /\ threads' = IF threads[t].net
                              THEN [Popped(t) EXCEPT ![t].net = FALSE]
                              ELSE [threads EXCEPT ![t].net = TRUE]
                /\ UNCHANGED <<files_guard, progress_guard, messages_guard>>
         [] op = "task" ->
                /\ \/ threads' = [threads EXCEPT ![t].net = ~@]
                   \/ ~threads[t].net /\ threads' = Popped(t)
                /\ UNCHANGED <<files_guard, progress_guard, messages_guard>>
         [] op \in {"spawn_upload", "spawn_download"} ->
                /\ \E w \in 1..MaxTransfers, fetch_ok \in BOOLEAN :
                    /\ ~threads[w].spawned
                    /\ \A v \in 1..(w - 1) : threads[v].spawned
                    /\ threads' = [Popped(t) EXCEPT ![w] =
                            [ops |-> ThreadOps(IF op = "spawn_upload" THEN "upload"
                                               ELSE "download", fetch_ok),
                             net |-> FALSE, spawned |-> TRUE]]
                /\ UNCHANGED <<files_guard, progress_guard, messages_guard>>

\* ------------------------------------------------------------------ the program
\* The interactive program runs on an established session.
InitConnIdle ==
    /\ known_hosts_file = {}
    /\ conn = NoConn
    /\ runs = 0

\* No meter has been made; Rftp::new has reported its one message.
InitCallsIdle ==
    /\ recorded = <<>>
    /\ history = <<>>
    /\ reported = <<InfoMsg("Press ? for help.")>>

Init == InitRftp /\ InitConnIdle /\ InitLockIdle /\ InitCallsIdle

\* A step of the w-th thread started.
Worker(w) == w \in 1..Len(workers) /\ WorkerStep(w) /\ UNCHANGED <<connVars, lockVars, callVars>>

Next ==
    \/ KeyForceQuit /\ UNCHANGED <<connVars, lockVars, callVars>>
    \/ KeyQuit /\ UNCHANGED <<connVars, lockVars, callVars>>
    \/ KeyEnter /\ UNCHANGED <<connVars, lockVars, callVars>>
    \/ KeySpace /\ UNCHANGED <<connVars, lockVars, callVars>>
    \/ KeyDown /\ UNCHANGED <<connVars, lockVars, callVars>>
    \/ KeyUp /\ UNCHANGED <<connVars, lockVars, callVars>>
    \/ KeyToggle /\ UNCHANGED <<connVars, lockVars, callVars>>
    \/ KeyHidden /\ UNCHANGED <<connVars, lockVars, callVars>>
    \/ Tick /\ UNCHANGED <<connVars, lockVars, callVars>>
    \/ \E w \in 1..MaxTransfers : Worker(w)

Spec == Init /\ [][Next]_vars

\* Session establishment, before the interactive program exists: main.rs calls
\* create_session first, and each run of the program starts it afresh against the
\* known-hosts file the earlier runs left.
InitConn ==
    /\ InitRftp
    /\ known_hosts_file \in {{}, {KnownHost(BracketName("h2", BarePort), 1)}}
    /\ conn = NoConn
    /\ runs = 0
    /\ InitLockIdle
    /\ InitCallsIdle

NextConn ==
    \/ StartSession /\ UNCHANGED <<rftpVars, lockVars, callVars>>
    \/ AuthenticateHost /\ UNCHANGED <<rftpVars, lockVars, callVars>>
    \/ HostAnswer /\ UNCHANGED <<rftpVars, lockVars, callVars>>
    \/ AuthRound /\ UNCHANGED <<rftpVars, lockVars, callVars>>
    \/ PasswordPrompt /\ UNCHANGED <<rftpVars, lockVars, callVars>>
    \/ PasswordAttempt /\ UNCHANGED <<rftpVars, lockVars, callVars>>
    \/ AuthReturn /\ UNCHANGED <<rftpVars, lockVars, callVars>>

SpecConn == InitConn /\ [][NextConn]_vars

\* The program with its threads scheduled fairly: a worker thread that can take
\* a step eventually takes it.
SpecFair == Spec /\ \A w \in 1..MaxTransfers : WF_vars(Worker(w))

\* The program started where the local directory c also holds d, a symbolic link
\* to the file /a/b.
LocalLinkFs == (<<2, 4, 5>> :> SymlinkNode(<<2, 3>>)) @@ LocalInitFs
InitLinks ==
    InitOn(LocalLinkFs, RemoteInitFs) /\ InitConnIdle /\ InitLockIdle /\ InitCallsIdle
SpecLinks == InitLinks /\ [][Next]_vars

\* The navigation of the program started against a remote home directory that is
\* the root and holds nothing but the hidden file .h, or against the remote tree
\* above.
RemoteDotFs == (<<>> :> DirNode) @@ (<<1>> :> FileNode(<<1>>))
InitNav ==
    /\ \E remote_fs \in {RemoteInitFs, RemoteDotFs} : InitOn(LocalInitFs, remote_fs)
    /\ InitConnIdle
    /\ InitLockIdle
    /\ InitCallsIdle
\* The keys that move the cursor or change a listing; no transfer is dispatched.
NextNav ==
    \/ KeyEnter /\ UNCHANGED <<connVars, lockVars, callVars>>
    \/ KeyDown /\ UNCHANGED <<connVars, lockVars, callVars>>
    \/ KeyUp /\ UNCHANGED <<connVars, lockVars, callVars>>
    \/ KeyToggle /\ UNCHANGED <<connVars, lockVars, callVars>>
    \/ KeyHidden /\ UNCHANGED <<connVars, lockVars, callVars>>
SpecNav == InitNav /\ [][NextNav]_vars

\* The program started against a server whose home directory, with a file and a
\* directory in it, is a path that names nothing on the local machine; the keys that move
\* the cursor and dispatch a transfer, and the threads of the transfers.
RemoteAwayFs ==
    (<<>> :> DirNode) @@ (<<5>> :> DirNode) @@ (<<5, 6>> :> FileNode(<<1>>))
    @@ (<<5, 7>> :> DirNode)
InitAway ==
    /\ lfs = LocalInitFs
    /\ rfs = RemoteAwayFs
    /\ show_hidden_files = FALSE
    /\ files = set_remote_working_path(
                    set_local_working_path(EmptyFileList, LocalInitFs, LocalCwd, FALSE, TRUE).f,
                    RemoteAwayFs, <<5>>, FALSE, TRUE).f
    /\ progress_bars = <<>>
    /\ workers = <<>>
    /\ user_message = report(<<>>, InfoMsg("Press ? for help."))
    /\ app = "running"
    /\ fault_budget = MaxFaults
    /\ clobbered = {}
    /\ key_budget = MaxKeys
    /\ InitConnIdle
    /\ InitLockIdle
    /\ InitCallsIdle
NextAway ==
    \/ KeySpace /\ UNCHANGED <<connVars, lockVars, callVars>>
    \/ KeyDown /\ UNCHANGED <<connVars, lockVars, callVars>>
    \/ KeyToggle /\ UNCHANGED <<connVars, lockVars, callVars>>
    \/ \E w \in 1..MaxTransfers : Worker(w)
SpecAway == InitAway /\ [][NextAway]_vars

\* The threads of the program as they use the locks of the file list, of the
\* progress registry and of the message queue.
NextLock ==
    \/ NextEvent /\ UNCHANGED <<rftpVars, connVars, callVars>>
    \/ \E t \in ThreadIds : ThreadStep(t) /\ UNCHANGED <<rftpVars, connVars, callVars>>

SpecLock == Init /\ [][NextLock]_vars

\* The same with every thread scheduled and every call it makes returning: a
\* thread whose next call can be made again and again eventually makes it. For
\* a thread parked in lock() this says that it is not passed over for ever while
\* the mutex keeps being released; the control loop, the one thread that locks
\* in a loop, sleeps in get_next_event between two handlers.
SpecLockFair ==
    SpecLock /\ \A t \in ThreadIds :
        SF_vars(ThreadStep(t) /\ UNCHANGED <<rftpVars, connVars, callVars>>)

\* The progress meters used through their interface, by any caller: meters of
\* any total are made and registered, inc() and finish() are called on the
\* registered ones in any order, and the tick prunes the registry.
ProgressNew(total) ==
    LET id == <<0, Cardinality(DOMAIN recorded) + 1>> IN
    /\ Cardinality(DOMAIN recorded) < MaxMeters
    /\ progress_bars' = Append(progress_bars, NewMeter(id, total))
    /\ recorded' = (id :> <<>>) @@ recorded
    /\ history' = (id :> <<0>>) @@ history
    /\ UNCHANGED <<lfs, rfs, files, show_hidden_files, workers, user_message, app,
                   fault_budget, clobbered, key_budget, reported>>

ProgressInc(i, bytes) ==
    LET id == progress_bars[i].id IN
    /\ Len(recorded[id]) < MaxIncs
    /\ progress_bars' = IncMeter(progress_bars, id, bytes)
    /\ recorded' = [recorded EXCEPT ![id] = Append(@, bytes)]
    /\ \E aged \in 0..Len(history[id]) :
            history' = [history EXCEPT ![id] =
                            SubSeq(Append(@, bytes), aged + 1, Len(@) + 1)]
    /\ UNCHANGED <<lfs, rfs, files, show_hidden_files, workers, user_message, app,
                   fault_budget, clobbered, key_budget, reported>>

ProgressFinish(i) ==
    /\ progress_bars' = FinishMeter(progress_bars, progress_bars[i].id)
    /\ history' = [history EXCEPT ![progress_bars[i].id] = <<>>]
    /\ UNCHANGED <<lfs, rfs, files, show_hidden_files, workers, user_message, app,
                   fault_budget, clobbered, key_budget, recorded, reported>>

NextProgress ==
    \/ \E total \in 0..MaxTotal : ProgressNew(total) /\ UNCHANGED <<connVars, lockVars>>
    \/ \E i \in DOMAIN progress_bars, bytes \in 0..ChunkSize :
            ProgressInc(i, bytes) /\ UNCHANGED <<connVars, lockVars>>
    \/ \E i \in DOMAIN progress_bars : ProgressFinish(i) /\ UNCHANGED <<connVars, lockVars>>
    \/ Tick /\ UNCHANGED <<connVars, lockVars, callVars>>

SpecProgress == Init /\ [][NextProgress]_vars

\* The status-message queue used through its interface, by any caller:
\* report(), warn() and error() in any order, after the report of Rftp::new.
Report(m) ==
    /\ Len(reported) < MaxReports
    /\ user_message' = report(user_message, m)
    /\ reported' = Append(reported, m)
    /\ UNCHANGED <<lfs, rfs, files, show_hidden_files, progress_bars, workers, app,
                   fault_budget, clobbered, key_budget, recorded, history>>

NextMessages ==
    \E m \in {InfoMsg("message"), WarningMsg(0), ErrorMsg("IOError", 0)} :
        Report(m) /\ UNCHANGED <<connVars, lockVars>>

SpecMessages == Init /\ [][NextMessages]_vars

\* ================================================================ properties
\* ---------------------------------------------------------------------- C1
\* C1: in every reachable state the cursor is in bounds: Local(i) has
\* i < len(local_entries) and Remote(i) has i < len(remote_entries), whatever
\* sequence of working-path changes, fetches (the workers' refresh and the
\* hidden-files toggle among them) and cursor moves led there.
C1_CursorInBounds == SelectedInBounds(files)

\* ---------------------------------------------------------------------- C5
\* C5: no worker creates or truncates a destination path that exists at the
\* moment of the create, in any interleaving of the workers.
C5_NeverClobbered == clobbered = {}

\* ---------------------------------------------------------------------- C6
\* The job at the head of worker w's queue collides: the path it would make
\* (destination_dir / source file name) exists at the destination.
Collides(w) ==
    /\ workers[w].pc = "task"
    /\ workers[w].job_queue # <<>>
    /\ LET job == Head(workers[w].job_queue)
       IN  /\ job.source.kind \in {"File", "Directory"}
           /\ Exists(DestFs(workers[w].kind), Join(job.dest, FileName(job.source.path)))

MeterIds(bars) == {bars[i].id : i \in DOMAIN bars}

\* C6: the step of a transfer that meets an existing destination path ends the
\* task with RemoteFileExists (upload) or LocalFileExists (download), unless the
\* existence test itself fails; it writes nothing to either filesystem, makes no
\* directory and registers no meter, and the worker writes nothing afterwards.
C6_CollisionFailsWithoutWriting ==
    /\ [][\A w \in 1..Len(workers) :
            (Collides(w) /\ workers'[w] # workers[w]) =>
                /\ lfs' = lfs /\ rfs' = rfs
                /\ MeterIds(progress_bars') = MeterIds(progress_bars)
                /\ workers'[w].nfiles = workers[w].nfiles
                /\ workers'[w].pc = "refresh"
                /\ fault_budget' = fault_budget
                        => workers'[w].result = ExistsError(workers[w].kind)]_vars
    /\ [][\A w \in 1..Len(workers) :
            (workers[w].pc \in {"refresh", "done"} /\ workers'[w] # workers[w]) =>
                lfs' = lfs /\ rfs' = rfs]_vars

\* An upload met an existing remote path and a download an existing local one,
\* both tasks have returned, and both filesystems are as they started.
C6_Witness ==
    /\ \E w \in 1..Len(workers) :
            workers[w].result = "RemoteFileExists" /\ workers[w].pc = "done"
    /\ \E w \in 1..Len(workers) :
            workers[w].result = "LocalFileExists" /\ workers[w].pc = "done"
    /\ lfs = LocalInitFs /\ rfs = RemoteInitFs

\* ---------------------------------------------------------------------- C7
IsUnder(q, p) == Len(q) >= Len(p) /\ SubSeq(q, 1, Len(p)) = p
Under(fs, p) == {q \in DOMAIN fs : IsUnder(q, p)}
Suffix(q, p) == SubSeq(q, Len(p) + 1, Len(q))

\* The tree at dp in dfs has the structure of the tree at sp in sfs, and every
\* file in it the bytes of the file it was copied from.
SameTree(sfs, sp, dfs, dp) ==
    /\ {Suffix(q, sp) : q \in Under(sfs, sp)} = {Suffix(q, dp) : q \in Under(dfs, dp)}
    /\ \A q \in Under(sfs, sp) : dfs[dp \o Suffix(q, sp)] = sfs[q]

FilesUnder(fs, p) == {q \in Under(fs, p) : fs[q].kind = "file"}

\* Worker 1 ran alone, on a file or directory whose name was free at the
\* destination, with no I/O failure, and its task has returned.
RanAloneUnhindered ==
    /\ Len(workers) = 1
    /\ workers[1].pc \in {"refresh", "done"}
    /\ fault_budget = MaxFaults
    /\ workers[1].source.kind \in {"File", "Directory"}
    /\ LET initial == IF workers[1].kind = "upload" THEN RemoteInitFs ELSE LocalInitFs
       IN  ~Exists(initial, Join(workers[1].dest, FileName(workers[1].source.path)))

C7_Copied ==
    RanAloneUnhindered =>
        LET wk == workers[1]
            top == Join(wk.dest, FileName(wk.source.path))
        IN  /\ wk.result = "Ok"
            /\ SameTree(SourceFs(wk.kind), wk.source.path, DestFs(wk.kind), top)
            /\ wk.nfiles = Cardinality(FilesUnder(SourceFs(wk.kind), wk.source.path))
            /\ \A i \in DOMAIN progress_bars :
                    progress_bars[i].id[1] = 1 => progress_bars[i].finished

\* C7: a transfer of a tree of files and directories whose name is free at the
\* destination, running with no I/O failure, returns Ok and leaves at the
\* destination a tree of the same structure with byte-identical files, having
\* registered one meter per file and left none unfinished; and under fair
\* scheduling every transfer started comes to its end unless the program ends.
C7_TransferCopiesTree ==
    /\ []C7_Copied
    /\ \A w \in 1..MaxTransfers :
            (Len(workers) >= w)
                ~> (app # "running" \/ (Len(workers) >= w /\ workers[w].pc = "done"))

\* An upload of a directory holding a file and a subdirectory with a file ended Ok.
C7_Witness ==
    /\ RanAloneUnhindered
    /\ workers[1].pc = "done"
    /\ workers[1].kind = "upload"
    /\ workers[1].source.kind = "Directory"
    /\ workers[1].nfiles = 2
    /\ workers[1].result = "Ok"

\* ---------------------------------------------------------------------- C2
\* The known-hosts file as this establishment found it holds a line for the
\* destination (bare, or bracketed with the port connected to), and none of
\* those lines carries the key the host presented.
StoredKeyDiffers ==
    LET lines == {r \in conn.store_at_start :
                    r.name.host = conn.destination /\ r.name.port \in {0, conn.port}}
    IN  lines # {} /\ \A r \in lines : r.key # conn.key

\* C2: once the check has been made against a stored line that carries another
\* key, the establishment has failed with MismatchedFingerprint, with no prompt,
\* no write to the known-hosts file and no step of user authentication.
C2_MismatchFailsHard ==
    (StoredKeyDiffers /\ conn.check \notin {"none", "Failure"}) =>
        /\ conn.check = "Mismatch"
        /\ conn.pc = "done"
        /\ conn.result = "MismatchedFingerprint"
        /\ conn.host_prompts = 0
        /\ known_hosts_file = conn.store_at_start
        /\ conn.methods_queries = 0
        /\ conn.agent_attempts = 0
        /\ conn.pw_prompts = 0
        /\ conn.pw_attempts = 0

C2_Witness ==
    /\ StoredKeyDiffers
    /\ conn.check = "Mismatch"
    /\ conn.result = "MismatchedFingerprint"

\* ---------------------------------------------------------------------- C3
\* First contact: the check found no line for the host.
C3_Prompted ==
    /\ conn.check = "NotFound" =>
            conn.host_prompts = 1 \/ conn.result = "HostFingerprintNotFound"
    /\ conn.host_prompts = 1 => conn.check = "NotFound"
    /\ conn.result = "HostAuthenticationError" =>
            conn.host_prompts = 1 /\ known_hosts_file = conn.store_at_start

\* C3: on first contact the user is prompted (unless no fingerprint can be
\* computed); an answer read that is none of Y, y, YES, Yes, yes after trimming
\* ends the establishment with HostAuthenticationError and leaves the
\* known-hosts file as it was; and the file changes only in the step that reads
\* an affirmative answer to that prompt.
C3_FirstContactAsksBeforeTrusting ==
    /\ []C3_Prompted
    /\ [][(conn.pc = "host_prompt" /\ conn'.answer # <<>>
                /\ Trim(conn'.answer) \notin Affirmative) =>
            /\ conn'.pc = "done"
            /\ conn'.result = "HostAuthenticationError"
            /\ known_hosts_file' = known_hosts_file]_vars
    /\ [][known_hosts_file' # known_hosts_file =>
            /\ conn.pc = "host_prompt"
            /\ conn.host_prompts = 1
            /\ Trim(conn'.answer) \in Affirmative]_vars

\* The user answered "no" at the prompt and the establishment failed.
C3_Witness ==
    /\ conn.check = "NotFound"
    /\ conn.answer = <<"n", "o", "\n">>
    /\ conn.result = "HostAuthenticationError"

\* ---------------------------------------------------------------------- C4
\* The triples accepted at the prompt in an earlier establishment, for the
\* destination and port of this one.
AcceptedEarlier ==
    {a \in conn.accepted :
        /\ a.destination = conn.destination
        /\ a.port = conn.port
        /\ KnownHost(PlainName(a.destination), a.key) \in conn.store_at_start}

\* C4: every accepted (destination, port, key) has its line in the known-hosts
\* file, and the check of that key for that destination and port finds it; an
\* establishment to an accepted destination and port that comes to the check
\* (the library call not failing) goes on without a prompt when the host presents
\* the accepted key, and fails with MismatchedFingerprint without a prompt when
\* it presents another.
C4_AcceptedKeyIsRemembered ==
    /\ \A a \in conn.accepted :
            /\ KnownHost(PlainName(a.destination), a.key) \in known_hosts_file
            /\ check_port(known_hosts_file, a.destination, a.port, a.key) = "Match"
    /\ \A a \in AcceptedEarlier :
            conn.check \notin {"none", "Failure"} =>
                /\ conn.host_prompts = 0
                /\ IF conn.key = a.key
                   THEN /\ conn.check = "Match"
                        /\ conn.result \notin {"MismatchedFingerprint",
                                               "HostAuthenticationError"}
                        /\ conn.pc # "host_prompt"
                   ELSE /\ conn.check = "Mismatch"
                        /\ conn.result = "MismatchedFingerprint"

\* A later establishment to an accepted destination and port, with the accepted
\* key, has passed the check.
C4_Witness ==
    /\ \E a \in AcceptedEarlier : a.key = conn.key
    /\ conn.check = "Match"
    /\ conn.port = BarePort
    /\ conn.pc = "auth_round"

\* ---------------------------------------------------------------------- C8
\* C8: a finished establishment holds a session (result Ok) only if the session
\* reports authenticated; one that ends unauthenticated after the loop began
\* holds an error, and that error is UserAuthenticationError when the rounds are
\* exhausted or three password attempts were rejected.
C8_SessionOnlyIfAuthenticated ==
    /\ conn.result = "Ok" => conn.authenticated
    /\ (conn.pc = "done" /\ conn.methods_queries > 0 /\ ~conn.authenticated) =>
            /\ conn.result \in {"UserAuthenticationError", "IOError"}
            /\ (conn.round = 3 \/ conn.pw_attempts = 3) =>
                    conn.result = "UserAuthenticationError"

\* Three rounds were made, none authenticated, and the loop returned the error.
C8_Witness ==
    /\ conn.pc = "done"
    /\ conn.round = 3
    /\ ~conn.authenticated
    /\ conn.result = "UserAuthenticationError"

\* ---------------------------------------------------------------------- C9
\* C9: in one establishment the password prompt is shown at most 3 times, over
\* all rounds; every password read is tried against the server exactly once
\* (at most one is read and not yet tried), and a prompt whose read fails ends
\* the establishment with that error, untried.
C9_AtMostThreePasswordPrompts ==
    /\ conn.pw_prompts <= 3
    /\ conn.pw_attempts <= conn.pw_read
    /\ conn.pw_read <= conn.pw_prompts
    /\ conn.pw_read = IF conn.pc = "pw_attempt" THEN conn.pw_attempts + 1
                      ELSE conn.pw_attempts
    /\ conn.pw_prompts # conn.pw_read =>
            /\ conn.pw_prompts = conn.pw_read + 1
            /\ conn.pc = "done"
            /\ conn.result = "IOError"

\* The password was first offered in the second round, and three prompts, each
\* with its attempt, were made there.
C9_Witness ==
    /\ conn.methods_queries = 2
    /\ conn.pw_prompts = 3
    /\ conn.pw_attempts = 3

\* --------------------------------------------------------------------- C10
\* C10: the scan of offered methods is made at most 3 times, and
\* UserAuthenticationError is returned only after the third scan has been made
\* with the session still unauthenticated.
C10_ErrorOnlyAfterThirdRound ==
    conn.result = "UserAuthenticationError" =>
        conn.methods_queries = 3 /\ ~conn.authenticated

\* C10, as the code has it: at most 3 rounds, each with one scan, are made, a
\* further one only while the session is unauthenticated; UserAuthenticationError
\* is returned with the session unauthenticated, either after the third round or,
\* from the round that offers the password, as soon as three password attempts
\* have been rejected.
C10_ErrorAfterRoundsOrRejections ==
    /\ conn.round <= 3
    /\ conn.methods_queries <= 3
    /\ conn.methods_queries \in {conn.round, conn.round + 1}
    /\ (conn.pc = "done" /\ conn.methods_queries > 0 /\ conn.round < 3
            /\ conn.pw_attempts < 3) =>
                conn.authenticated \/ conn.result = "IOError"
    /\ conn.result = "UserAuthenticationError" =>
            /\ ~conn.authenticated
            /\ \/ conn.round = 3 /\ conn.methods_queries = 3
               \/ conn.pw_attempts = 3 /\ conn.pw_loop = 3

\* The first round offered the password, three attempts were rejected, and the
\* error was returned with no second round made.
C10_Witness ==
    /\ conn.pc = "done"
    /\ conn.result = "UserAuthenticationError"
    /\ conn.methods_queries = 1
    /\ conn.pw_attempts = 3
    /\ ~conn.authenticated

\* --------------------------------------------------------------------- C11
\* The step in which the task of worker w returns an error.
FailsNow(w) ==
    /\ workers[w].result = "none"
    /\ workers'[w].result \notin {"none", "Ok"}

\* Worker w's task has returned an error and worker v is still in flight.
FailedBeside(w, v) ==
    /\ Len(workers) >= w /\ Len(workers) >= v
    /\ workers[w].result \notin {"none", "Ok"}
    /\ workers[v].pc # "done"

\* C11: the step in which one worker's task returns an error (a collision, the
\* parent marker, an I/O or protocol error) appends that error to the message
\* queue, leaves the control loop running and every other worker as it was, and
\* sends the failed worker on to its refresh; and every other worker in flight
\* then still comes to its end, unless the program ends first.
C11_JobErrorStaysInItsWorker ==
    /\ [][\A w \in 1..Len(workers) : FailsNow(w) =>
            /\ app' = "running"
            /\ workers'[w].pc = "refresh"
            /\ user_message' # <<>>
            /\ LET m == user_message'[Len(user_message')]
               IN  m.tag = "error" /\ m.w = w /\ m.text = workers'[w].result
            /\ \A v \in 1..Len(workers) : v # w => workers'[v] = workers[v]]_vars
    /\ \A w, v \in 1..MaxTransfers :
            v # w => (FailedBeside(w, v)
                        ~> (app # "running"
                                \/ (Len(workers) >= v /\ workers[v].pc = "done")))

\* One transfer ended with a collision, the other one beside it ended Ok, both
\* threads are through, and the control loop is running.
C11_Witness ==
    /\ app = "running"
    /\ \E w, v \in 1..Len(workers) :
            /\ workers[w].result = "RemoteFileExists" /\ workers[w].pc = "done"
            /\ workers[v].result = "Ok" /\ workers[v].pc = "done"
            /\ \E i \in DOMAIN user_message :
                    user_message[i].tag = "error" /\ user_message[i].w = w

\* --------------------------------------------------------------------- C12
\* A step of the control loop (it consumed a key) in which a directory read failed.
ListingFailsInLoop ==
    /\ key_budget' < key_budget
    /\ fault_budget' < fault_budget

\* C12: when a directory listing made by the control loop (Enter on a directory,
\* or the two fetches of the hidden-files toggle) fails, the failure is appended
\* to the message queue as an error and the control loop keeps running.
C12_ListingFailureIsReported ==
    [][ListingFailsInLoop =>
            /\ app' = "running"
            /\ user_message' # <<>>
            /\ user_message'[Len(user_message')].tag = "error"]_vars

\* --------------------------------------------------------------------- C13
\* C13: no thread, control loop or worker, is inside a network call (an SFTP
\* round trip) while it holds the lock of the file list.
C13_NoLockAcrossNetworkCall ==
    \A t \in files_guard : ~threads[t].net

\* --------------------------------------------------------------------- C14
\* The cursor is on the parent marker of its pane.
OnParentMarker ==
    /\ SelectedInBounds(files)
    /\ files.selected.pane # "None"
    /\ is_parent(get_selected_entry(files))

\* C14: dispatching a transfer of the parent marker, whatever the parent path
\* is (the root included), does not crash the control loop; the transfer ends
\* with CannotUploadParent / CannotDownloadParent and no other result, and writes
\* nothing and makes no directory at the destination.
C14_ParentTransferIsRefused ==
    /\ [][(app = "running" /\ OnParentMarker) => app' # "panic"]_vars
    /\ [][\A w \in 1..Len(workers) :
            (is_parent(workers[w].source) /\ workers'[w] # workers[w]) =>
                /\ lfs' = lfs /\ rfs' = rfs
                /\ workers'[w].result \in {"none", ParentError(workers[w].kind)}
                /\ workers'[w].pc \in {"refresh", "done"}]_vars

\* --------------------------------------------------------------------- C15
\* The job at the head of worker w's queue has a symbolic link as its source.
HeadIsLink(w) ==
    /\ workers[w].pc = "task"
    /\ workers[w].job_queue # <<>>
    /\ LET p == Head(workers[w].job_queue).source.path
       IN  p \in DOMAIN SourceFs(workers[w].kind)
           /\ SourceFs(workers[w].kind)[p].kind = "symlink"

\* C15: the step of a transfer that takes a job whose source is a symbolic link
\* writes nothing, appends one warning to the message queue, does not end the
\* task, and leaves the rest of the queue to be worked on.
C15_SymlinkIsSkippedWithWarning ==
    [][\A w \in 1..Len(workers) :
        (HeadIsLink(w) /\ workers'[w] # workers[w]) =>
            /\ lfs' = lfs /\ rfs' = rfs
            /\ Len(user_message') > 0
            /\ user_message'[Len(user_message')].tag = "warning"
            /\ workers'[w].pc = "task"
            /\ workers'[w].result = "none"
            /\ workers'[w].job_queue = Tail(workers[w].job_queue)]_vars

\* --------------------------------------------------------------------- C16
\* The directory meter of transfer w is in the registry and not finished.
DirMeterUnfinished(w) ==
    \E i \in DOMAIN progress_bars :
        progress_bars[i].id = <<w, 0>> /\ ~progress_bars[i].finished

\* C16: the meter registered for a top-level directory transfer stays in the
\* registry, unfinished, while the traversal runs, and is finished from the
\* moment the traversal has ended, in success or in error; and the traversal
\* does end, so the meter is eventually finished, unless the program ends first.
C16_DirectoryMeterIsFinished ==
    /\ [](\A w \in 1..Len(workers) :
            /\ workers[w].pc \in {"refresh", "done"} => ~DirMeterUnfinished(w)
            /\ (workers[w].dirprog /\ workers[w].pc \notin {"refresh", "done"})
                    => DirMeterUnfinished(w)
            /\ ~workers[w].dirprog => \A i \in DOMAIN progress_bars :
                                            progress_bars[i].id # <<w, 0>>)
    /\ \A w \in 1..MaxTransfers :
            DirMeterUnfinished(w) ~> (app # "running" \/ ~DirMeterUnfinished(w))

\* Two directory transfers have ended, one Ok and one in an error, and the meter
\* of each is in the registry, finished.
C16_Witness ==
    \E w, v \in 1..Len(workers) :
        /\ workers[w].dirprog /\ workers[w].result = "Ok"
        /\ workers[v].dirprog /\ workers[v].result \notin {"none", "Ok"}
        /\ \E i, j \in DOMAIN progress_bars :
            /\ progress_bars[i].id = <<w, 0>> /\ progress_bars[i].finished
            /\ progress_bars[j].id = <<v, 0>> /\ progress_bars[j].finished

\* --------------------------------------------------------------------- C17
\* The file list after the refresh a worker of `kind` makes of list f.
Refreshed(f, kind) ==
    IF kind = "upload"
    THEN [f EXCEPT !.remote_entries = Listing(rfs, f.remote_directory, show_hidden_files)]
    ELSE [f EXCEPT !.local_entries = Listing(lfs, f.local_directory, show_hidden_files)]

\* C17: a worker touches the file list only in its last step, after its task
\* has returned, in success or in error; that step replaces the listing of the
\* destination side (remote after an upload, local after a download) by the
\* directory as it is then, filtered by the hidden-files flag as it is then, or,
\* when the read fails, leaves the list and reports the error; and every task
\* that has returned is followed by that step, unless the program ends first.
C17_RefreshAfterTraversal ==
    /\ [][\A w \in 1..Len(workers) : workers'[w] # workers[w] =>
            IF workers[w].pc = "refresh"
            THEN /\ workers[w].result # "none"
                 /\ workers'[w] = [workers[w] EXCEPT !.pc = "done"]
                 /\ IF fault_budget' = fault_budget
                    THEN files' = Refreshed(files, workers[w].kind)
                    ELSE /\ files' = files
                         /\ user_message'[Len(user_message')].tag = "error"
            ELSE files' = files /\ workers[w].pc # "done"]_vars
    /\ \A w \in 1..MaxTransfers :
            (Len(workers) >= w /\ workers[w].result # "none")
                ~> (app # "running" \/ (Len(workers) >= w /\ workers[w].pc = "done"))

\* With the hidden files shown since the program started, one upload has ended
\* Ok and another in an error; both threads are through, and the remote listing
\* shows what the directory holds, the hidden entries and the uploaded file
\* among them.
C17_Witness ==
    /\ show_hidden_files
    /\ \E w, v \in 1..Len(workers) :
        /\ workers[w].kind = "upload" /\ workers[w].result = "Ok" /\ workers[w].pc = "done"
        /\ workers[v].kind = "upload" /\ workers[v].result \notin {"none", "Ok"}
        /\ workers[v].pc = "done"
        /\ \E i \in DOMAIN files.remote_entries :
                files.remote_entries[i].path =
                    Join(workers[w].dest, FileName(workers[w].source.path))
    /\ \E i \in DOMAIN files.remote_entries : is_hidden(files.remote_entries[i])
    /\ files.remote_entries = Listing(rfs, files.remote_directory, TRUE)

\* --------------------------------------------------------------------- C18
\* C18: in every reachable state the cursor is None only if the local and the
\* remote listing are both empty.
C18_NoneOnlyIfBothEmpty ==
    files.selected.pane = "None" =>
        files.local_entries = <<>> /\ files.remote_entries = <<>>

\* --------------------------------------------------------------------- C19
RECURSIVE NextTimes(_, _)
NextTimes(f, k) == IF k = 0 THEN f ELSE NextTimes(next_selected(f), k - 1)
RECURSIVE PrevTimes(_, _)
PrevTimes(f, k) == IF k = 0 THEN f ELSE PrevTimes(prev_selected(f), k - 1)

\* The length of the listing the cursor of f is in.
SelectedLen(f) ==
    IF f.selected.pane = "Local" THEN Len(f.local_entries) ELSE Len(f.remote_entries)

\* C19: for a cursor in range in a listing of n entries, n times next_selected
\* and n times prev_selected each bring the cursor back to the pane and index it
\* has; each single move stays in the pane, next goes from i to i + 1 and from
\* n - 1 to 0, prev from i to i - 1 and from 0 to n - 1.
C19_WraparoundLaw ==
    (files.selected.pane # "None" /\ SelectedInBounds(files)) =>
        LET n == SelectedLen(files)
            i == files.selected.i
            next == next_selected(files).selected
            prev == prev_selected(files).selected
        IN  /\ NextTimes(files, n) = files
            /\ PrevTimes(files, n) = files
            /\ next.pane = files.selected.pane
            /\ prev.pane = files.selected.pane
            /\ next.i = IF i = n - 1 THEN 0 ELSE i + 1
            /\ prev.i = IF i = 0 THEN n - 1 ELSE i - 1

\* The first key pressed was 'k': the cursor went from the first entry of the
\* local listing round to the last.
C19_Witness ==
    /\ key_budget = MaxKeys - 1
    /\ Len(files.local_entries) >= 3
    /\ files.selected = LocalSelected(Len(files.local_entries) - 1)
    /\ next_selected(files).selected = LocalSelected(0)

\* --------------------------------------------------------------------- C20
\* The listing of the pane the cursor of f is in, and of the other pane.
OwnEntries(f) == IF f.selected.pane = "Local" THEN f.local_entries ELSE f.remote_entries
OtherEntries(f) == IF f.selected.pane = "Local" THEN f.remote_entries ELSE f.local_entries
OtherPane(f) == IF f.selected.pane = "Local" THEN "Remote" ELSE "Local"

\* C20: toggle_selected takes a cursor in range from Local(i) to Remote(i), and
\* from Remote(i) to Local(i), with the same index i, whenever the listing it
\* goes to is not empty; when that listing is empty it selects index 0 or None.
C20_TogglePreservesIndex ==
    (files.selected.pane # "None" /\ SelectedInBounds(files)) =>
        LET toggled == toggle_selected(files).selected
        IN  IF OtherEntries(files) # <<>>
            THEN toggled = [pane |-> OtherPane(files), i |-> files.selected.i]
            ELSE toggled.pane = "None" \/ toggled.i = 0

\* C20, as the code has it: the cursor goes to the other pane at index
\* i mod n, n the length of the listing there, which is i itself exactly when
\* i < n; when that listing is empty the cursor goes to index 0 of the pane it
\* is in, or to None when that listing is empty as well.
C20_ToggleKeepsIndexModuloLength ==
    files.selected.pane # "None" =>
        LET toggled == toggle_selected(files).selected
            i == files.selected.i
            n == Len(OtherEntries(files))
        IN  IF n > 0
            THEN /\ toggled = [pane |-> OtherPane(files), i |-> i % n]
                 /\ toggled.i = i <=> i < n
            ELSE IF OwnEntries(files) # <<>>
            THEN toggled = [pane |-> files.selected.pane, i |-> 0]
            ELSE toggled = NoneSelected

\* Two keys were pressed, 'k' and 'l': the cursor went to the last of the four
\* local entries and from there to the remote pane, whose three entries have no
\* index 3; it is on the first of them, and toggling back gives Local(0).
C20_Witness ==
    /\ key_budget = MaxKeys - 2
    /\ ~show_hidden_files
    /\ Len(files.local_entries) = 4
    /\ Len(files.remote_entries) = 3
    /\ files.selected = RemoteSelected(0)
    /\ toggle_selected(files).selected = LocalSelected(0)
    /\ toggle_selected(prev_selected(toggle_selected(files))).selected = RemoteSelected(0)

\* --------------------------------------------------------------------- C21
\* C21: with both listings non-empty (and the same at both calls), two calls of
\* toggle_selected from a cursor that is in a pane bring the cursor back to
\* the pane it started in.
C21_ToggleTwiceReturnsToPane ==
    (files.selected.pane # "None" /\ files.local_entries # <<>>
        /\ files.remote_entries # <<>>) =>
        /\ toggle_selected(files).selected.pane = OtherPane(files)
        /\ toggle_selected(toggle_selected(files)).selected.pane = files.selected.pane

\* Three keys were pressed, 'k', 'l' and 'h': the cursor went from the last of
\* the four local entries to the remote pane and back; it is in the local pane
\* again, at index 0, and two more toggles would leave it in the local pane.
C21_Witness ==
    /\ key_budget = MaxKeys - 3
    /\ ~show_hidden_files
    /\ Len(files.local_entries) = 4
    /\ Len(files.remote_entries) = 3
    /\ files.selected = LocalSelected(0)
    /\ toggle_selected(files).selected = RemoteSelected(0)
    /\ toggle_selected(toggle_selected(files)).selected = LocalSelected(0)

\* --------------------------------------------------------------------- C22
\* C22: when next_selected or prev_selected is applied while the cursor is in a
\* pane whose listing is empty, the cursor becomes index 0 of the other listing
\* if that listing is not empty, and None only if both listings are empty.
C22_MoveOnEmptyListingFallsBack ==
    (files.selected.pane # "None" /\ OwnEntries(files) = <<>>) =>
        LET fallback == IF OtherEntries(files) # <<>>
                        THEN [pane |-> OtherPane(files), i |-> 0]
                        ELSE NoneSelected
        IN  /\ next_selected(files).selected = fallback
            /\ prev_selected(files).selected = fallback

\* --------------------------------------------------------------------- C23
\* The entries of a listing, as a set.
EntrySet(s) == {s[i] : i \in DOMAIN s}
\* The parent entry the listing of dir starts from.
ParentSet(dir) == IF HasParent(dir) THEN {ParentEntry(ParentOf(dir))} ELSE {}
HasDotName(e) == ~is_parent(e) /\ FileName(e.path) \in DotNames

\* C23: a successful fetch that does not keep hidden files leaves a listing with
\* no entry whose file name begins with '.', and with the parent entry when the
\* directory has a parent; a successful fetch that keeps them leaves the parent
\* entry and every entry the directory read returned. While the control loop
\* runs with hidden files not shown, neither listing holds such an entry.
C23_HiddenEntriesAreFiltered ==
    LET local_all == ParentSet(files.local_directory) \cup ReadDirSet(lfs, files.local_directory)
        remote_all == ParentSet(files.remote_directory) \cup ReadDirSet(rfs, files.remote_directory)
        lh == fetch_local_files(files, lfs, FALSE, TRUE)
        lk == fetch_local_files(files, lfs, TRUE, TRUE)
        rh == fetch_remote_files(files, rfs, FALSE, TRUE)
        rk == fetch_remote_files(files, rfs, TRUE, TRUE)
    IN  /\ lh.ok =>
            /\ \A e \in EntrySet(lh.f.local_entries) : ~HasDotName(e)
            /\ ParentSet(files.local_directory) \subseteq EntrySet(lh.f.local_entries)
        /\ lk.ok =>
            /\ EntrySet(lk.f.local_entries) = local_all
            /\ Len(lk.f.local_entries) = Cardinality(local_all)
        /\ rh.ok =>
            /\ \A e \in EntrySet(rh.f.remote_entries) : ~HasDotName(e)
            /\ ParentSet(files.remote_directory) \subseteq EntrySet(rh.f.remote_entries)
        /\ rk.ok =>
            /\ EntrySet(rk.f.remote_entries) = remote_all
            /\ Len(rk.f.remote_entries) = Cardinality(remote_all)
        /\ (app = "running" /\ ~show_hidden_files) =>
            \A e \in EntrySet(files.local_entries) \cup EntrySet(files.remote_entries) :
                ~HasDotName(e)

\* 'z' was pressed twice: the listings were fetched with hidden files kept and
\* then without. The local directory has a parent and holds a file whose name
\* begins with '.'; the listing holds the parent entry and not that file, and a
\* fetch that keeps hidden files would list it again.
C23_Witness ==
    /\ key_budget = MaxKeys - 2
    /\ app = "running"
    /\ ~show_hidden_files
    /\ \E e \in ReadDirSet(lfs, files.local_directory) : HasDotName(e)
    /\ \A e \in EntrySet(files.local_entries) : ~HasDotName(e)
    /\ ParentSet(files.local_directory) # {}
    /\ ParentSet(files.local_directory) \subseteq EntrySet(files.local_entries)
    /\ \E e \in EntrySet(fetch_local_files(files, lfs, TRUE, TRUE).f.local_entries) :
            HasDotName(e)

\* --------------------------------------------------------------------- C24
\* A listing in ascending order of path.
AscendingByPath(s) == \A i, j \in DOMAIN s : i < j => PathLess(s[i].path, s[j].path)
\* The parent entry, when the listing has one, is its first entry.
ParentLeads(s) == \A i \in DOMAIN s : is_parent(s[i]) => i = 1
\* The listing of dir has a parent entry exactly when dir has a parent.
ParentKept(s, dir) == HasParent(dir) <=> (s # <<>> /\ is_parent(s[1]))

\* C24: after every successful fetch, in both panes, the parent entry (when the
\* directory has one) is at index 0 and the other entries follow in ascending
\* order of path, files and directories alike, and the listing is the same for
\* every order in which the directory read may return the entries.
C24_ListingIsSortedParentFirst ==
    /\ AscendingByPath(files.local_entries) /\ ParentLeads(files.local_entries)
    /\ AscendingByPath(files.remote_entries) /\ ParentLeads(files.remote_entries)
    /\ \A keep \in BOOLEAN :
        LET l == fetch_local_files(files, lfs, keep, TRUE)
            r == fetch_remote_files(files, rfs, keep, TRUE)
        IN  /\ l.ok =>
                /\ AscendingByPath(l.f.local_entries) /\ ParentLeads(l.f.local_entries)
                /\ ParentKept(l.f.local_entries, files.local_directory)
                /\ \A read \in Orderings(ReadDirSet(lfs, files.local_directory)) :
                        ListingOf(files.local_directory, read, keep) = l.f.local_entries
            /\ r.ok =>
                /\ AscendingByPath(r.f.remote_entries) /\ ParentLeads(r.f.remote_entries)
                /\ ParentKept(r.f.remote_entries, files.remote_directory)
                /\ \A read \in Orderings(ReadDirSet(rfs, files.remote_directory)) :
                        ListingOf(files.remote_directory, read, keep) = r.f.remote_entries

\* 'z' was pressed: both listings were fetched again. The local listing starts
\* with the parent entry and has a directory between two files; some order of
\* the directory read has a file first and the hidden one last.
C24_Witness ==
    /\ key_budget = MaxKeys - 1
    /\ show_hidden_files
    /\ Len(files.local_entries) = 5
    /\ is_parent(files.local_entries[1])
    /\ \E i \in 2..4 : /\ is_file(files.local_entries[i])
                       /\ files.local_entries[i + 1].kind = "Directory"
    /\ \E i \in 3..4 : /\ files.local_entries[i].kind = "Directory"
                       /\ is_file(files.local_entries[i + 1])
    /\ \E read \in Orderings(ReadDirSet(lfs, files.local_directory)) :
            /\ is_file(read[1])
            /\ is_hidden(read[Len(read)])
            /\ ListingOf(files.local_directory, read, TRUE) = files.local_entries

\* --------------------------------------------------------------------- C25
\* The sum of the amounts in s.
RECURSIVE SumOf(_)
SumOf(s) == IF s = <<>> THEN 0 ELSE Head(s) + SumOf(Tail(s))

C26_BytesSentIsMonotoneSum ==
    /\ [](\A i \in DOMAIN progress_bars :
            ~progress_bars[i].finished =>
                progress_bars[i].sent = SumOf(recorded[progress_bars[i].id]))
    /\ [][\A i \in DOMAIN progress_bars, j \in DOMAIN progress_bars' :
            (progress_bars[i].id = progress_bars'[j].id /\ ~progress_bars'[j].finished)
                => progress_bars'[j].sent >= progress_bars[i].sent]_vars

\* Two meters are registered and unfinished; inc() was called twice on the
\* first, with 1 and 2, and once on the second, with 2; the first holds more
\* than its total.
C26_Witness ==
    /\ Len(progress_bars) = 2
    /\ \A i \in 1..2 : ~progress_bars[i].finished
    /\ recorded[progress_bars[1].id] = <<1, 2>>
    /\ recorded[progress_bars[2].id] = <<2>>
    /\ progress_bars[1].sent = 3
    /\ progress_bars[1].total = 2
    /\ progress_bars[2].sent = 2

\* --------------------------------------------------------------------- C27
\* C27: a tick takes out of the registry every meter whose finished flag is set
\* and none whose flag is not set, and leaves the others in the order they had;
\* no step other than a tick takes a meter out of the registry.
C27_OnlyTickRemovesFinishedMeters ==
    [][LET kept == MeterIds(progress_bars')
           removed == MeterIds(progress_bars) \ kept
       IN  /\ Tick =>
                /\ \A i \in DOMAIN progress_bars :
                        progress_bars[i].finished <=> progress_bars[i].id \in removed
                /\ progress_bars' = SelectSeq(progress_bars, LAMBDA p : p.id \in kept)
           /\ removed # {} => Tick]_vars

\* A transfer of a directory is under way: its directory meter is registered and
\* unfinished, and the meter of the first file it sent, finished, is gone from
\* the registry.
C27_Witness ==
    \E w \in 1..Len(workers) :
        /\ workers[w].nfiles >= 1
        /\ workers[w].pc # "done"
        /\ <<w, 1>> \notin MeterIds(progress_bars)
        /\ \E i \in DOMAIN progress_bars :
                progress_bars[i].id = <<w, 0>> /\ ~progress_bars[i].finished

\* --------------------------------------------------------------------- C28
\* An answer in lower case.
LowerCase(s) ==
    [i \in DOMAIN s |->
        CASE s[i] = "Y" -> "y" [] s[i] = "E" -> "e" [] s[i] = "S" -> "s" [] OTHER -> s[i]]
\* The answer, trimmed, is "y" or "yes" in some mix of upper and lower case.
SaysYes(input) == LowerCase(Trim(input)) \in {<<"y">>, <<"y", "e", "s">>}

\* C28: at the prompt of a first contact every answer that is "y" or "yes" in any
\* mix of upper and lower case, whitespace trimmed, is taken as consent: the
\* session is not refused for the host, the key is stored under the destination
\* and establishment goes on (unless adding or writing the record itself fails).
C28_AnyCaseYesIsAccepted ==
    (conn.answer # <<>> /\ SaysYes(conn.answer)) =>
        /\ conn.result # "HostAuthenticationError"
        /\ \/ KnownHost(PlainName(conn.destination), conn.key) \in known_hosts_file
           \/ conn.pc = "done" /\ conn.result = "IOError" /\ conn.methods_queries = 0

\* --------------------------------------------------------------------- C29
\* C29: when no port is given, the connect to (destination, 22) is made only if
\* the connect to the bare destination failed; when the bare connect succeeds
\* its stream is the one used, and establishment does not fail for port 22
\* being unreachable.
C29_Port22OnlyAfterBareConnectFailed ==
    /\ conn.fallback # "none" => conn.bare = "failed"
    /\ (conn.bare = "ok" /\ conn.pc \notin {"idle", "done"}) => conn.port = BarePort
    /\ conn.bare = "ok" =>
            ~(conn.pc = "done" /\ conn.result = "IOError" /\ conn.fallback = "failed")

\* --------------------------------------------------------------------- C30
\* The last n elements of s.
LastOf(s, n) == SubSeq(s, Len(s) - n + 1, Len(s))

\* C30: after any sequence of reports the queue is the tail end of the sequence
\* of reported messages, in the order they were reported, and holds no more
\* than NUM_MAX_MESSAGES of them; once NUM_MAX_MESSAGES messages have been
\* reported the first is not held any more; and a report either appends, or
\* appends and drops the oldest message.
C30_QueueIsSuffixOfReports ==
    /\ [](/\ Len(user_message) <= Len(reported)
          /\ user_message = LastOf(reported, Len(user_message))
          /\ Len(user_message) <= NUM_MAX_MESSAGES
          /\ Len(reported) >= NUM_MAX_MESSAGES => Len(user_message) < Len(reported))
    /\ [][LET pushed == Append(user_message, reported'[Len(reported')])
          IN  user_message' = pushed \/ user_message' = Tail(pushed)]_vars

\* One message more than NUM_MAX_MESSAGES has been reported, of all three
\* kinds: the queue holds the last four of them, not the first two.
C30_Witness ==
    /\ Len(reported) = NUM_MAX_MESSAGES + 1
    /\ Len(user_message) = NUM_MAX_MESSAGES - 1
    /\ user_message[1] = reported[3]
    /\ reported[2] # reported[3]
    /\ {reported[i].tag : i \in DOMAIN reported} = {"info", "warning", "error"}

\* --------------------------------------------------------------------- C31
\* The task of worker w has returned an error.
TaskFailed(w) == workers[w].result \notin {"none", "Ok"}

\* C31: once the task of a worker has returned its first error the worker takes
\* no further job: it is in its refresh or through, its queue stays as the
\* error left it, no step registers another meter for it, and no step of that
\* worker writes a file or makes a directory.
C31_FirstErrorAbandonsQueue ==
    [][\A w \in 1..Len(workers) : TaskFailed(w) =>
            /\ workers[w].pc \in {"refresh", "done"}
            /\ workers'[w].pc \in {"refresh", "done"}
            /\ workers'[w].result = workers[w].result
            /\ workers'[w].job_queue = workers[w].job_queue
            /\ workers'[w].nfiles = workers[w].nfiles
            /\ {id \in MeterIds(progress_bars') : id[1] = w} \subseteq MeterIds(progress_bars)
            /\ workers'[w] # workers[w] => (lfs' = lfs /\ rfs' = rfs)]_vars

\* The upload of a directory failed on an I/O error with jobs still in its
\* queue, and the thread is through: the queued entries were never sent.
C31_Witness ==
    \E w \in 1..Len(workers) :
        /\ workers[w].pc = "done"
        /\ workers[w].result = "IOError"
        /\ workers[w].kind = "upload"
        /\ is_dir(workers[w].source)
        /\ workers[w].job_queue # <<>>
        /\ \A i \in DOMAIN workers[w].job_queue :
                ~Exists(rfs, Join(workers[w].job_queue[i].dest,
                                  FileName(workers[w].job_queue[i].source.path)))

\* --------------------------------------------------------------------- C32
\* The depth of a job in the source tree.
JobDepth(job) == Len(job.source.path)

\* The jobs of queue q other than the seed (source, dest) of worker record wk.
ChildJobs(wk) ==
    {i \in DOMAIN wk.job_queue : wk.job_queue[i].source.path # wk.source.path}

JustFinished(i) ==
    /\ progress_bars[i].finished
    /\ progress_bars[i].sent = progress_bars[i].total
    /\ history[progress_bars[i].id] = <<>>

\* C33: a finish() leaves the meter with bytes_sent = total_bytes, an empty
\* history and the finished flag set, whatever inc() calls came before it, and
\* leaves every other meter alone; a finish() of a meter that is as a finish()
\* left it changes nothing; finishing twice is finishing once; and no call
\* brings the finished flag of a meter back to false.
C33_FinishIsIdempotentAndTerminal ==
    /\ [][\A i \in DOMAIN progress_bars : ProgressFinish(i) =>
            /\ DOMAIN progress_bars' = DOMAIN progress_bars
            /\ progress_bars'[i] = [progress_bars[i] EXCEPT
                                        !.sent = progress_bars[i].total, !.finished = TRUE]
            /\ history'[progress_bars[i].id] = <<>>
            /\ \A j \in DOMAIN progress_bars : j # i =>
                    /\ progress_bars'[j] = progress_bars[j]
                    /\ history'[progress_bars[j].id] = history[progress_bars[j].id]
            /\ JustFinished(i) => (progress_bars' = progress_bars /\ history' = history)]_vars
    /\ [][\A i \in DOMAIN progress_bars, j \in DOMAIN progress_bars' :
            (progress_bars[i].id = progress_bars'[j].id /\ progress_bars[i].finished)
                => progress_bars'[j].finished]_vars
    /\ [](\A i \in DOMAIN progress_bars :
            LET once == FinishMeter(progress_bars, progress_bars[i].id)
            IN  FinishMeter(once, progress_bars[i].id) = once)

\* A meter of total 2 took an inc() of 1, was finished, took an inc() of 2
\* after that, and was finished a second time: it reads 2 of 2, its history is
\* empty and it is flagged, beside a meter that was never finished.
C33_Witness ==
    /\ Len(progress_bars) = 2
    /\ JustFinished(1)
    /\ progress_bars[1].total = 2
    /\ recorded[progress_bars[1].id] = <<1, 2>>
    /\ ~progress_bars[2].finished
    /\ history[progress_bars[2].id] # <<>>

\* --------------------------------------------------------------------- C34
\* Every entry of both listings was read from the directory recorded beside it.
ListingsNameTheirDirectories(f) ==
    /\ \A i \in DOMAIN f.local_entries :
            f.local_entries[i].kind # "Parent"
                => ParentOf(f.local_entries[i].path) = f.local_directory
    /\ \A i \in DOMAIN f.remote_entries :
            f.remote_entries[i].kind # "Parent"
                => ParentOf(f.remote_entries[i].path) = f.remote_directory

\* C34: an Enter whose set_local_working_path or set_remote_working_path fails
\* leaves the file list as it was before the call, the listings in place and
\* each recorded directory naming the directory its listing was read from.
C34_FailedSetWorkingPathChangesNothing ==
    [][(KeyEnter /\ app' = "error") =>
            /\ files' = files
            /\ ListingsNameTheirDirectories(files')]_vars

\* --------------------------------------------------------------------- C35
\* The calls made to the server and the prompts issued, so far in this run.
AuthCalls(c) == <<c.methods_queries, c.agent_attempts, c.pw_prompts, c.pw_read, c.pw_attempts>>

\* C35: authentication stops as soon as the session reports authenticated:
\* no password is prompted for or tried on an authenticated session; within a
\* run, a step from an authenticated session makes no query, no agent attempt,
\* no prompt and no password attempt, and a round that begins with the session
\* authenticated returns it; and the step of an agent attempt, failed or not,
\* never ends the establishment with an error.
C35_AuthenticationStopsWhenAuthenticated ==
    /\ [](conn.pc \in {"password", "pw_attempt"} => ~conn.authenticated)
    /\ [][(conn.authenticated /\ runs' = runs) =>
            /\ AuthCalls(conn') = AuthCalls(conn)
            /\ conn'.authenticated
            /\ conn.pc = "auth_round" => (conn'.pc = "done" /\ conn'.result = "Ok")]_vars
    /\ [][(runs' = runs /\ conn'.agent_attempts > conn.agent_attempts) =>
            /\ conn'.result = "none"
            /\ conn'.pc \in {"auth_round", "password"}
            /\ conn'.authenticated => conn'.pc = "auth_round"]_vars

\* The agent failed in the first round and authenticated the session in the
\* second; the session was returned and no password was ever asked for.
C35_Witness ==
    /\ conn.pc = "done"
    /\ conn.result = "Ok"
    /\ conn.authenticated
    /\ conn.methods_queries = 2
    /\ conn.agent_attempts = 2
    /\ conn.pw_prompts = 0

\* --------------------------------------------------------------------- C36
\* Some transfer was dispatched and every transfer thread is through.
AllWorkersTerminated ==
    /\ workers # <<>>
    /\ \A w \in 1..Len(workers) : workers[w].pc = "done"

\* C36: once every transfer worker has terminated, with Ok or with an error, a
\* tick leaves the progress registry empty, so that 'q' ends the control loop.
C36_TickEmptiesRegistryAfterWorkers ==
    [][(AllWorkersTerminated /\ Tick) => progress_bars' = <<>>]_vars

\* --------------------------------------------------------------------- C37
\* Worker w has an unfinished meter in the registry.
HasUnfinishedMeter(w) ==
    \E i \in DOMAIN progress_bars :
        progress_bars[i].id[1] = w /\ ~progress_bars[i].finished

\* C37: while the thread of a transfer is not through, a 'q' leaves the control
\* loop running, the registry holding an unfinished meter of that transfer.
C37_QuitWaitsForWorkers ==
    [][\A w \in 1..Len(workers) :
            (KeyQuit /\ workers[w].pc # "done") =>
                /\ HasUnfinishedMeter(w)
                /\ app' = "running"]_vars

\* --------------------------------------------------------------------- C38
\* C38: a Space on an entry of either listing never panics the control loop on
\* the assertion of spawn_upload / spawn_download: the destination handed over
\* (the remote working directory for an upload, the local one for a download)
\* passes dest.is_dir().
C38_DispatchAssertionsHold ==
    [][(KeySpace /\ SelectedInBounds(files) /\ files.selected.pane # "None") =>
            LET dest == IF files.selected.pane = "Local" THEN files.remote_directory
                        ELSE files.local_directory
            IN  /\ IsDir(lfs, dest)
                /\ HasFileName(get_selected_entry(files).path) => app' = "running"]_vars

\* --------------------------------------------------------------------- C39
\* The locks thread t holds, by their place in the order registry, file list,
\* message queue.
HeldRanks(t) ==
    (IF t \in progress_guard THEN {1} ELSE {})
    \cup (IF t \in files_guard THEN {2} ELSE {})
    \cup (IF t \in messages_guard THEN {3} ELSE {})

\* The place in that order of the lock thread t is about to take, 0 if its next
\* call takes none.
WantedRank(t) ==
    IF threads[t].ops = <<>> THEN 0
    ELSE CASE Head(threads[t].ops) = "lock_progress" -> 1
           [] Head(threads[t].ops) = "lock" -> 2
           [] Head(threads[t].ops) = "lock_messages" -> 3
           [] OTHER -> 0

\* C39: the control loop and the transfer threads never deadlock on the locks
\* of the file list, the progress registry and the message queue: whenever a
\* thread has a call left to make, some thread can make its next call; every
\* thread takes its locks in the one order registry, file list, message queue
\* and never a lock it holds; a thread with no call left holds no lock; and,
\* its calls returning, every thread that holds a lock releases it.
C39_ThreeLocksNeverDeadlock ==
    /\ []((\E t \in ThreadIds : threads[t].ops # <<>>)
            => \E t \in ThreadIds : ENABLED ThreadStep(t))
    /\ [](\A t \in ThreadIds :
            /\ WantedRank(t) # 0 => \A r \in HeldRanks(t) : r < WantedRank(t)
            /\ threads[t].ops = <<>> => HeldRanks(t) = {})
    /\ \A t \in ThreadIds :
            /\ (t \in files_guard) ~> (t \notin files_guard)
            /\ (t \in progress_guard) ~> (t \notin progress_guard)
            /\ (t \in messages_guard) ~> (t \notin messages_guard)

\* All three locks are held, by three threads, two of them waiting: the control
\* loop in its draw holds the registry and waits for the file list; a transfer
\* thread holds the file list after a failed fetch and waits for the message
\* queue; the other transfer thread holds the message queue for its report.
C39_Witness ==
    /\ progress_guard = {0}
    /\ WantedRank(0) = 2
    /\ \E w, v \in 1..MaxTransfers :
            /\ w # v
            /\ files_guard = {w}
            /\ WantedRank(w) = 3
            /\ messages_guard = {v}
            /\ HeldRanks(v) = {3}

\* --------------------------------------------------------------------- C40
\* authenticate_host has returned Ok in this run: the key matched the store, or
\* it was not found, the user answered the prompt with yes and the key was
\* added to the store under the destination.
HostTrusted(c) ==
    \/ c.check = "Match"
    \/ /\ c.check = "NotFound"
       /\ c.host_prompts = 1
       /\ IsAffirmative(c.answer)
       /\ KnownHost(PlainName(c.destination), c.key) \in c.known_hosts
       /\ [destination |-> c.destination, port |-> c.port, key |-> c.key] \in c.accepted

\* The results with which authenticate_host fails.
HostErrors ==
    {"UnableToFindHomeDirectory", "HostKeyNotFound", "HostFingerprintNotFound",
     "HostAuthenticationError", "MismatchedFingerprint", "HostFileCheckError"}

\* C40: within one establishment no methods query, agent attempt, password
\* prompt or password attempt is made, and the session is not in its
\* authentication rounds, before the host trust check has succeeded; a step
\* that makes such a call starts from a trusted host; and an establishment
\* that ended on a failed trust check has made none of them and returns no
\* session.
C40_NoCredentialBeforeHostTrust ==
    /\ []((\/ AuthCalls(conn) # <<0, 0, 0, 0, 0>>
           \/ conn.pc \in {"auth_round", "password", "pw_attempt"}
           \/ conn.authenticated
           \/ conn.result \in {"Ok", "UserAuthenticationError"})
            => HostTrusted(conn))
    /\ [](conn.result \in HostErrors =>
            /\ AuthCalls(conn) = <<0, 0, 0, 0, 0>>
            /\ ~conn.authenticated
            /\ conn.pc = "done")
    /\ [][(runs' = runs /\ AuthCalls(conn') # AuthCalls(conn)) =>
            (HostTrusted(conn) /\ conn.pc \in {"auth_round", "password", "pw_attempt"})]_vars

\* The second establishment met a key that differs from the one the user
\* accepted in the first: it ended on the mismatch with no methods query, no
\* agent attempt and no password prompt made.
C40_Witness ==
    /\ runs = 2
    /\ conn.pc = "done"
    /\ conn.result = "MismatchedFingerprint"
    /\ conn.accepted # {}
    /\ conn.store_at_start # {}
    /\ AuthCalls(conn) = <<0, 0, 0, 0, 0>>

====
